---------------------------- MODULE Spec2Model ----------------------------
(***************************************************************************)
(* Well production application: the data store (models.py), the monthly   *)
(* rate aggregation and the well / completion classification              *)
(* (well_type_calculator.py).                                              *)
(*                                                                         *)
(* Tables (pandas DataFrames) are sequences of records, one record per    *)
(* row, one field per column.  A column that a code path does not create  *)
(* is a field the record does not have.                                    *)
(*                                                                         *)
(* The two tables of readings can be longer than a chunk of the            *)
(* calculation (10000 rows).  A record of a readings table stands for      *)
(* `copies` consecutive rows of the same values: copies is the length of   *)
(* the run, not a column, and is 1 for a single row.  The tables the       *)
(* calculation builds from them have one record per row.                   *)
(*                                                                         *)
(* Rates are volume / days-in-month.  The code computes them in binary     *)
(* floating point; the model computes them as exact rationals in lowest   *)
(* terms, so rounding error of the float sums is not modelled.            *)
(***************************************************************************)
EXTENDS Integers, Sequences, FiniteSets, TLC

VARIABLES
    pc,                      \* "start" before load_data, "ready" after it
    well_to_completions,     \* WellDataStore.well_to_completions
    completion_to_reservoir, \* WellDataStore.completion_to_reservoir
    production_data,         \* WellDataStore.production_data.data
    injection_data,          \* WellDataStore.injection_data.data
    ran,                     \* the operations run so far
    prod_monthly,            \* calculate_monthly_well_types: prod_monthly
    inj_monthly,             \* calculate_monthly_well_types: inj_monthly
    combined,                \* calculate_monthly_well_types: combined, as
                             \* _combine_and_classify_data returned it
    monthly_types,           \* result of the last well_monthly_type run
    prod_completion_data,    \* calculate_completion_status: prod_completion_data
    inj_completion_data,     \* calculate_completion_status: inj_completion_data
    completion_status,       \* result of the last completion_state run
    historical_types,        \* calculate_monthly_well_types: historical_well_types
    operations,              \* operations_results.db: the rows of table operations
    well_monthly_type,       \* operations_results.db: the rows of well_monthly_type
    sqlite_sequence,         \* the last operation_id AUTOINCREMENT gave out
    returned,                \* the last call on the operations database
                             \* and the value it returned
    well_reservoir_type,     \* operations_results.db: rows of well_reservoir_type
    well_overall_type,       \* operations_results.db: rows of well_overall_type
    progress_updated,        \* WellTypeCalculator.progress_updated: "lambda"
                             \* (the constructor's default) or "signal"
    exception,               \* what the last public call of the calculator
                             \* raised, "none" when it returned
    worker,                  \* the OperationWorker thread of the current run
    progress_dialog,         \* the OperationProgressDialog of the current run
    event_queue,             \* events queued for the main thread
    emitted,                 \* the operation_completed signals the worker
                             \* has emitted
    overall_types            \* what calculate_overall_well_types returned

vars == <<pc, well_to_completions, completion_to_reservoir, production_data,
          injection_data, ran, prod_monthly, inj_monthly, combined,
          monthly_types, prod_completion_data, inj_completion_data,
          completion_status, historical_types, operations,
          well_monthly_type, sqlite_sequence, returned,
          well_reservoir_type, well_overall_type, progress_updated,
          exception, worker, progress_dialog, event_queue, emitted,
          overall_types>>

well_run == <<prod_monthly, inj_monthly, combined, monthly_types,
              historical_types, overall_types>>

operations_db == <<operations, well_monthly_type, sqlite_sequence, returned,
                   well_reservoir_type, well_overall_type>>

calculator == <<progress_updated, exception>>

gui == <<worker, progress_dialog, event_queue, emitted>>

completion_run == <<prod_completion_data, inj_completion_data, completion_status>>

store == <<well_to_completions, completion_to_reservoir, production_data,
           injection_data>>

-----------------------------------------------------------------------------
(* Bounds of the model *)

\* most rows of the MENSUAL (production) table
MaxProdRows == 3

\* most rows of the INY_CALDAY (injection) table
MaxInjRows == 1

\* most rows of the production table of a store a calculator is built on
\* by a direct caller
MaxClassifyRows == 2

\* number of calendar months the readings are drawn from
MaxDates == 4

-----------------------------------------------------------------------------
(* Strings are ordered as Python orders them; every name of the model is here *)

StrOrder ==
    <<"C1", "C2", "C3", "CX", "PLA1", "PLA9", "R1", "R2", "UNKNOWN", "W1", "W2">>

StrRank(s) == CHOOSE i \in 1..Len(StrOrder) : StrOrder[i] = s

\* lexicographic order on tuples of integers of the same length
LexLess(a, b) ==
    \E i \in 1..Len(a) :
        /\ a[i] < b[i]
        /\ \A j \in 1..(i - 1) : a[j] = b[j]

\* DataFrame.sort_values on several columns (a stable sort): keys[i] is the
\* tuple of integers that row s[i] has in those columns
SortValues(s, keys) ==
    LET n == Len(s)
        Before(i, j) == \/ LexLess(keys[i], keys[j])
                        \/ (keys[i] = keys[j] /\ i < j)
        pos(i) == 1 + Cardinality({j \in 1..n : Before(j, i)})
    IN  [k \in 1..n |-> s[CHOOSE i \in 1..n : pos(i) = k]]

\* the sorted sequence of a set of integer tuples
SortedKeys(K) ==
    LET pos(k) == 1 + Cardinality({x \in K : LexLess(x, k)})
    IN  [i \in 1..Cardinality(K) |-> CHOOSE k \in K : pos(k) = i]

Range(s) == {s[i] : i \in 1..Len(s)}

\* pd.concat(chunks, ignore_index=True)
Concat(chunks) ==
    LET f[i \in 0..Len(chunks)] == IF i = 0 THEN <<>> ELSE f[i - 1] \o chunks[i]
    IN  f[Len(chunks)]

\* the number of rows a record stands for
Copies(r) == IF "copies" \in DOMAIN r THEN r.copies ELSE 1

\* len(s): the number of rows of table s
Rows(s) ==
    LET f[i \in 0..Len(s)] == IF i = 0 THEN 0 ELSE f[i - 1] + Copies(s[i])
    IN  f[Len(s)]

\* rows i+1 .. i+size of s, as the slice s[i:i+size]: of every run the rows
\* that lie in the slice (the whole table when it fits into the slice)
Slice(s, i, size) ==
    IF i = 0 /\ Rows(s) <= size THEN s
    ELSE
      LET before == [k \in 1..Len(s) |-> Rows(SubSeq(s, 1, k - 1))]
          lo == [k \in 1..Len(s) |-> IF before[k] > i THEN before[k] ELSE i]
          hi == [k \in 1..Len(s) |->
                    IF before[k] + Copies(s[k]) < i + size
                    THEN before[k] + Copies(s[k]) ELSE i + size]
          part(k) == IF hi[k] <= lo[k] THEN <<>>
                     ELSE IF "copies" \in DOMAIN s[k]
                     THEN <<[s[k] EXCEPT !.copies = hi[k] - lo[k]]>>
                     ELSE <<s[k]>>
      IN  Concat([k \in 1..Len(s) |-> part(k)])

\* [s[i:i+size] for i in range(0, len(s), size)]
Chunks(s, size) ==
    [c \in 1..((Rows(s) + size - 1) \div size) |-> Slice(s, (c - 1) * size, size)]

-----------------------------------------------------------------------------
(* Rates: exact rationals in lowest terms *)

RECURSIVE GCD(_, _)
GCD(a, b) == IF b = 0 THEN a ELSE GCD(b, a % b)

Rat(n, d) == IF n = 0 THEN [num |-> 0, den |-> 1]
             ELSE [num |-> n \div GCD(n, d), den |-> d \div GCD(n, d)]

Zero == Rat(0, 1)

RatAdd(a, b) == Rat(a.num * b.den + b.num * a.den, a.den * b.den)

\* a > 0
RatPos(a) == a.num > 0

\* a >= b
RatGE(a, b) == a.num * b.den >= b.num * a.den

\* n * a
RatTimes(n, a) == Rat(n * a.num, a.den)

\* Series.sum() of the column col over the rows of s
SumColumn(s, col) ==
    LET f[i \in 0..Len(s)] ==
            IF i = 0 THEN Zero
            ELSE RatAdd(f[i - 1], RatTimes(Copies(s[i]), s[i][col]))
    IN  f[Len(s)]

\* Series.round(2), in hundredths: numpy rounds half to even
Round2(a) ==
    LET q == (a.num * 100) \div a.den
        r == (a.num * 100) % a.den
    IN  IF 2 * r > a.den THEN q + 1
        ELSE IF 2 * r < a.den THEN q
        ELSE IF q % 2 = 0 THEN q ELSE q + 1

\* Timestamp.daysinmonth
DaysInMonth(year, month) ==
    IF month = 2
    THEN IF (year % 4 = 0 /\ year % 100 # 0) \/ year % 400 = 0 THEN 29 ELSE 28
    ELSE IF month \in {4, 6, 9, 11} THEN 30 ELSE 31

-----------------------------------------------------------------------------
(* The database the application reads (database_manager.py) *)

\* chunk_size = 10000, the rows of a chunk of the completion-level
\* calculation
chunk_size == 10000

\* the i-th calendar month of the readings: December 2023, January 2024, ...
DateOf(i) ==
    LET abs == 2023 * 12 + 10 + i
    IN  [year |-> abs \div 12, month |-> (abs % 12) + 1]

Dates == {DateOf(i) : i \in 1..MaxDates}

\* MAESTRA: WELL_LEGAL_NAME, COMPLETION_LEGAL_NAME
wells_df ==
    << [WELL_LEGAL_NAME |-> "W1",   COMPLETION_LEGAL_NAME |-> "C1"],
       [WELL_LEGAL_NAME |-> "W1",   COMPLETION_LEGAL_NAME |-> "C2"],
       [WELL_LEGAL_NAME |-> "W2",   COMPLETION_LEGAL_NAME |-> "C3"],
       [WELL_LEGAL_NAME |-> "PLA9", COMPLETION_LEGAL_NAME |-> "PLA1"] >>

\* SC: COMPLETION_LEGAL_NAME, RESERVORIO ("" is a missing reservoir)
well_types_df ==
    << [COMPLETION_LEGAL_NAME |-> "C1", RESERVORIO |-> "R1"],
       [COMPLETION_LEGAL_NAME |-> "C2", RESERVORIO |-> "R2"],
       [COMPLETION_LEGAL_NAME |-> "C3", RESERVORIO |-> ""] >>

\* the rows MENSUAL can hold: C1 produces oil, C2 produces water, CX is a
\* completion MAESTRA does not know, PLA1 belongs to an excluded well; the
\* table has no key, so a reading can be there any number of times, and
\* the long run is one row short of a chunk of the calculation
ProdReadings ==
    [COMP_S_NAME : {"C1"}, PROD_DT : Dates \ {DateOf(MaxDates)},
     VO_OIL_PROD : {0, 2}, VO_WAT_PROD : {0}, copies : {1}]
    \cup
    [COMP_S_NAME : {"C2"}, PROD_DT : {DateOf(1)}, VO_OIL_PROD : {0},
     VO_WAT_PROD : {0, 1}, copies : {1}]
    \cup
    [COMP_S_NAME : {"C2"}, PROD_DT : {DateOf(1)}, VO_OIL_PROD : {0},
     VO_WAT_PROD : {1}, copies : {chunk_size - 1}]
    \cup
    [COMP_S_NAME : {"CX", "PLA1"}, PROD_DT : {DateOf(1)},
     VO_OIL_PROD : {2}, VO_WAT_PROD : {0}, copies : {1}]

\* the rows INY_CALDAY can hold; the long run is one row longer than a chunk
InjReadings ==
    [COMPLETION_LEGAL_NAME : {"C1"}, Date : Dates, Water_INJ_CALDAY : {0, 2},
     copies : {1}]
    \cup
    [COMPLETION_LEGAL_NAME : {"C1"}, Date : {DateOf(1)}, Water_INJ_CALDAY : {3},
     copies : {1}]
    \cup
    [COMPLETION_LEGAL_NAME : {"C3"}, Date : {DateOf(1)},
     Water_INJ_CALDAY : {0, 2}, copies : {1}]
    \cup
    [COMPLETION_LEGAL_NAME : {"C3"}, Date : {DateOf(1)},
     Water_INJ_CALDAY : {2}, copies : {chunk_size + 1}]
    \cup
    [COMPLETION_LEGAL_NAME : {"CX", "PLA1"}, Date : {DateOf(1)},
     Water_INJ_CALDAY : {2}, copies : {1}]

\* the tables of at most max records over the set R
Tables(R, max) == UNION {[1..n -> R] : n \in 0..max}

\* the tables a query returns: the queries have no ORDER BY, so the rows
\* come in any order
ProdTables == Tables(ProdReadings, MaxProdRows)

InjTables == Tables(InjReadings, MaxInjRows)

-----------------------------------------------------------------------------
(* models.py: WellDataStore *)

\* "PLA" in name
ContainsPLA(name) == name \in {"PLA1", "PLA9"}

\* load_wells: the well -> completions dictionary after the rows of wells_df
LoadWellToCompletions(wdf) ==
    LET step(d, row) ==
            LET w == row.WELL_LEGAL_NAME
                c == row.COMPLETION_LEGAL_NAME
            IN  IF ContainsPLA(w) THEN d
                ELSE IF w \notin DOMAIN d THEN d @@ (w :> <<c>>)
                ELSE IF c \in Range(d[w]) THEN d
                ELSE [d EXCEPT ![w] = Append(@, c)]
        f[i \in 0..Len(wdf)] == IF i = 0 THEN <<>> ELSE step(f[i - 1], wdf[i])
    IN  f[Len(wdf)]

\* load_wells: the completion -> reservoir dictionary after well_types_df
LoadCompletionToReservoir(tdf) ==
    LET step(d, row) ==
            LET c == row.COMPLETION_LEGAL_NAME
                r == row.RESERVORIO
            IN  IF c # "" /\ r # ""
                THEN [x \in DOMAIN d \cup {c} |-> IF x = c THEN r ELSE d[x]]
                ELSE d
        f[i \in 0..Len(tdf)] == IF i = 0 THEN <<>> ELSE step(f[i - 1], tdf[i])
    IN  f[Len(tdf)]

\* load_production_data: rows of excluded wells are filtered out
FilterProduction(prod_df) ==
    SelectSeq(prod_df, LAMBDA r : ~ContainsPLA(r.COMP_S_NAME))

\* load_injection_data: rows of excluded wells are filtered out
FilterInjection(inj_df) ==
    SelectSeq(inj_df, LAMBDA r : ~ContainsPLA(r.COMPLETION_LEGAL_NAME))

-----------------------------------------------------------------------------
(* well_type_calculator.py: the well-level calculation *)

\* a plausible slip: every completion mapped to the well the loop ended on
_build_completion_to_well_map_LastWell(wtc) ==
    [c \in UNION {Range(wtc[w]) : w \in DOMAIN wtc} |->
        CHOOSE w \in DOMAIN wtc :
            \A v \in DOMAIN wtc : StrRank(v) <= StrRank(w)]

\* _build_completion_to_well_map: completion -> well (in the model no
\* completion belongs to two wells)
_build_completion_to_well_map(wtc) ==
    [c \in UNION {Range(wtc[w]) : w \in DOMAIN wtc} |->
        CHOOSE w \in DOMAIN wtc : c \in Range(wtc[w])]

\* a plausible slip: a completion without a well mapped to a default name,
\* as the reservoir lookup does
MapToWell_Default(c2w, comp) ==
    IF comp \in DOMAIN c2w THEN c2w[comp] ELSE "UNKNOWN"

\* Series.map(completion_to_well) of one completion name: its well, NaN for
\* a completion that is not in the mapping
MapToWell(c2w, comp) == IF comp \in DOMAIN c2w THEN c2w[comp] ELSE "NaN"

\* a plausible slip: the run adds its well_name column to the store's table
StoreTableAfterRun_InPlace(data, comp, c2w) ==
    [i \in 1..Len(data) |->
        data[i] @@ [well_name |-> MapToWell(c2w, data[i][comp])]]

\* the store's table after a run that read it: the run works on
\* data.copy(), so the columns it adds stay out of the store
StoreTableAfterRun(data, comp, c2w) == data

WellKey(r) == <<StrRank(r.well_name), r.year, r.month>>

\* groupby(['well_name', 'year', 'month']).agg(sum).reset_index() of the
\* rate columns cols: one row per key, keys in sorted order
GroupByWell(rows, cols) ==
    LET keys == SortedKeys({WellKey(r) : r \in Range(rows)})
        group(k) == SelectSeq(rows, LAMBDA r : WellKey(r) = k)
    IN  [i \in 1..Len(keys) |->
            LET g == group(keys[i])
            IN  [c \in {"well_name", "year", "month"} \cup cols |->
                    IF c \in cols THEN SumColumn(g, c) ELSE g[1][c]]]

\* _process_production_data: monthly production rates by well
_process_production_data(prod_data, wtc) ==
    IF prod_data = <<>> THEN <<>>
    ELSE
      LET c2w == _build_completion_to_well_map(wtc)
          known == SelectSeq(prod_data,
                             LAMBDA r : MapToWell(c2w, r.COMP_S_NAME) # "NaN")
          rated == [i \in 1..Len(known) |->
                      LET r == known[i]
                          days == DaysInMonth(r.PROD_DT.year, r.PROD_DT.month)
                      IN  [well_name  |-> MapToWell(c2w, r.COMP_S_NAME),
                           year       |-> r.PROD_DT.year,
                           month      |-> r.PROD_DT.month,
                           oil_rate   |-> Rat(r.VO_OIL_PROD, days),
                           water_rate |-> Rat(r.VO_WAT_PROD, days),
                           copies     |-> Copies(r)]]
      IN  GroupByWell(rated, {"oil_rate", "water_rate"})

\* _process_injection_data: monthly injection rates by well
_process_injection_data(inj_data, wtc) ==
    IF inj_data = <<>> THEN <<>>
    ELSE
      LET c2w == _build_completion_to_well_map(wtc)
          known == SelectSeq(inj_data,
                  LAMBDA r : MapToWell(c2w, r.COMPLETION_LEGAL_NAME) # "NaN")
          rated == [i \in 1..Len(known) |->
                      LET r == known[i]
                          days == DaysInMonth(r.Date.year, r.Date.month)
                      IN  [well_name      |-> MapToWell(c2w,
                                                        r.COMPLETION_LEGAL_NAME),
                           year           |-> r.Date.year,
                           month          |-> r.Date.month,
                           water_inj_rate |-> Rat(r.Water_INJ_CALDAY, days),
                           copies         |-> Copies(r)]]
      IN  GroupByWell(rated, {"water_inj_rate"})

\* _calculate_historical_well_types: per well, whether its summed rates
\* over all months are > 0
_calculate_historical_well_types(prod_m, inj_m) ==
    LET all_wells == {r.well_name : r \in Range(prod_m)}
                     \cup {r.well_name : r \in Range(inj_m)}
        of(t, w) == SelectSeq(t, LAMBDA r : r.well_name = w)
    IN  [w \in all_wells |->
            [has_production_history |->
                \/ RatPos(SumColumn(of(prod_m, w), "oil_rate"))
                \/ RatPos(SumColumn(of(prod_m, w), "water_rate")),
             has_injection_history |->
                RatPos(SumColumn(of(inj_m, w), "water_inj_rate"))]]

\* the merge as a left merge: the keys of the production table only
MergeWell_Left(prod_m, inj_m) ==
    LET keys == SortedKeys({WellKey(r) : r \in Range(prod_m)})
        P(k) == SelectSeq(prod_m, LAMBDA r : WellKey(r) = k)
        I(k) == SelectSeq(inj_m, LAMBDA r : WellKey(r) = k)
    IN  [i \in 1..Len(keys) |->
            LET p == P(keys[i])
                j == I(keys[i])
            IN  [well_name      |-> p[1].well_name,
                 year           |-> p[1].year,
                 month          |-> p[1].month,
                 oil_rate       |-> p[1].oil_rate,
                 water_rate     |-> p[1].water_rate,
                 water_inj_rate |-> IF j # <<>> THEN j[1].water_inj_rate ELSE Zero]]

\* pd.merge(prod_monthly, inj_monthly, on=[well_name, year, month],
\* how='outer') followed by fillna(0.0): both tables have one row per key
MergeWell(prod_m, inj_m) ==
    LET keys == SortedKeys({WellKey(r) : r \in Range(prod_m)}
                           \cup {WellKey(r) : r \in Range(inj_m)})
        P(k) == SelectSeq(prod_m, LAMBDA r : WellKey(r) = k)
        I(k) == SelectSeq(inj_m, LAMBDA r : WellKey(r) = k)
    IN  [i \in 1..Len(keys) |->
            LET p == P(keys[i])
                j == I(keys[i])
                any == IF p # <<>> THEN p[1] ELSE j[1]
            IN  [well_name      |-> any.well_name,
                 year           |-> any.year,
                 month          |-> any.month,
                 oil_rate       |-> IF p # <<>> THEN p[1].oil_rate ELSE Zero,
                 water_rate     |-> IF p # <<>> THEN p[1].water_rate ELSE Zero,
                 water_inj_rate |-> IF j # <<>> THEN j[1].water_inj_rate ELSE Zero]]

HasProd(row) == RatPos(row.oil_rate) \/ RatPos(row.water_rate)

HasInj(row) == RatPos(row.water_inj_rate)

\* CurrentType with has_current_prod looking at oil_rate alone
CurrentType_OilOnly(row) ==
    IF RatPos(row.oil_rate) /\ HasInj(row) THEN "DUAL"
    ELSE IF RatPos(row.oil_rate) THEN "PRODUCTION"
    ELSE IF HasInj(row) THEN "INJECTION"
    ELSE "UNKNOWN"

\* the type a month's own rates give (cases 1 to 3), "UNKNOWN" without any
CurrentType(row) ==
    IF HasProd(row) /\ HasInj(row) THEN "DUAL"
    ELSE IF HasProd(row) THEN "PRODUCTION"
    ELSE IF HasInj(row) THEN "INJECTION"
    ELSE "UNKNOWN"

\* last_known_type before the chronological loop: "None", or the type the
\* historical index gives a well whose rows show no rate at all
InitialLastKnownType(well_data, well_name, historical_well_types) ==
    LET has_prod_history == \E r \in Range(well_data) :
                                RatPos(r.oil_rate) \/ RatPos(r.water_rate)
        has_inj_history == \E r \in Range(well_data) : RatPos(r.water_inj_rate)
    IN  IF ~has_prod_history /\ ~has_inj_history
           /\ well_name \in DOMAIN historical_well_types
        THEN LET history == historical_well_types[well_name]
             IN  IF history.has_production_history
                    /\ ~history.has_injection_history THEN "PRODUCTION"
                 ELSE IF ~history.has_production_history
                         /\ history.has_injection_history THEN "INJECTION"
                 ELSE IF history.has_production_history
                         /\ history.has_injection_history THEN "PRODUCTION"
                 ELSE "None"
        ELSE "None"

\* last_known_type after each row of the chronological loop over well_data
LastKnownTypes(well_data, initial) ==
    LET f[i \in 0..Len(well_data)] ==
            IF i = 0 THEN initial
            ELSE IF CurrentType(well_data[i]) # "UNKNOWN"
                 THEN CurrentType(well_data[i])
                 ELSE f[i - 1]
    IN  [i \in 1..Len(well_data) |-> f[i]]

\* ChronoKey sorting a well's rows by month alone
ChronoKey_MonthOnly(r) == <<r.month>>

\* sort_values(['year', 'month']) of a well's rows
ChronoKey(r) == <<r.year, r.month>>

\* the well_type column of merged after cases 1 to 4
ClassifyMerged(merged, historical_well_types) ==
    [i \in 1..Len(merged) |->
        LET row == merged[i]
        IN  IF CurrentType(row) # "UNKNOWN" THEN CurrentType(row)
            ELSE
              LET of_well == SelectSeq(merged,
                                       LAMBDA r : r.well_name = row.well_name)
                  well_data == SortValues(of_well,
                      [k \in 1..Len(of_well) |-> ChronoKey(of_well[k])])
                  idx == CHOOSE k \in 1..Len(well_data) :
                             ChronoKey(well_data[k]) = ChronoKey(row)
                  last_known_type == LastKnownTypes(well_data,
                      InitialLastKnownType(well_data, row.well_name,
                                           historical_well_types))[idx]
              IN  IF last_known_type # "None" THEN last_known_type
                  ELSE "UNKNOWN"]

\* the remarks text of a dual-function row, as the pieces it is joined from
DualRemarks(row) ==
    <<"Dual function well: Production rate = ",
      Round2(RatAdd(row.oil_rate, row.water_rate)),
      " bbl/d, Injection rate = ",
      Round2(row.water_inj_rate), " bbl/d">>

\* a plausible slip: the flag set on every month with injection
HasDualFunction_AnyInjection(row) == IF HasInj(row) THEN 1 ELSE 0

\* has_dual_function of a merged row: 0, and 1 under the mask
\* has_current_prod & has_current_inj
HasDualFunction(row) == IF HasProd(row) /\ HasInj(row) THEN 1 ELSE 0

\* sort_values(['well_name', 'year', 'month'])
SortByWell(t) == SortValues(t, [i \in 1..Len(t) |-> WellKey(t[i])])

\* _combine_and_classify_data
_combine_and_classify_data(prod_m, inj_m, historical_well_types) ==
    IF prod_m = <<>> /\ inj_m = <<>> THEN <<>>
    ELSE IF prod_m = <<>> THEN
        SortByWell([i \in 1..Len(inj_m) |->
                      [well_name         |-> inj_m[i].well_name,
                       year              |-> inj_m[i].year,
                       month             |-> inj_m[i].month,
                       water_inj_rate    |-> inj_m[i].water_inj_rate,
                       oil_rate          |-> Zero,
                       water_rate        |-> Zero,
                       well_type         |-> "INJECTION",
                       has_dual_function |-> 0]])
    ELSE IF inj_m = <<>> THEN
        SortByWell([i \in 1..Len(prod_m) |->
                      [well_name         |-> prod_m[i].well_name,
                       year              |-> prod_m[i].year,
                       month             |-> prod_m[i].month,
                       oil_rate          |-> prod_m[i].oil_rate,
                       water_rate        |-> prod_m[i].water_rate,
                       water_inj_rate    |-> Zero,
                       well_type         |-> "PRODUCTION",
                       has_dual_function |-> 0]])
    ELSE
      LET merged == MergeWell(prod_m, inj_m)
          types == ClassifyMerged(merged, historical_well_types)
          typed == [i \in 1..Len(merged) |->
                      LET row == merged[i]
                          dual == HasDualFunction(row) = 1
                      IN  [well_name         |-> row.well_name,
                           year              |-> row.year,
                           month             |-> row.month,
                           oil_rate          |-> row.oil_rate,
                           water_rate        |-> row.water_rate,
                           water_inj_rate    |-> row.water_inj_rate,
                           well_type         |-> types[i],
                           has_dual_function |-> IF dual THEN 1 ELSE 0,
                           remarks           |-> IF dual THEN DualRemarks(row)
                                                 ELSE <<>>]]
      IN  SortByWell(typed)

\* DominantType with > in place of >=
DominantType_Strict(row) ==
    IF RatGE(RatAdd(row.oil_rate, row.water_rate), row.water_inj_rate)
       /\ RatAdd(row.oil_rate, row.water_rate) # row.water_inj_rate
    THEN "PRODUCTION" ELSE "INJECTION"

\* the lambda of the DUAL reclassification: the dominant type of a row
DominantType(row) ==
    IF RatGE(RatAdd(row.oil_rate, row.water_rate), row.water_inj_rate)
    THEN "PRODUCTION" ELSE "INJECTION"

\* ResolveDual leaving the DUAL rows as they are
ResolveDual_Skip(comb) == comb

\* the DUAL reclassification of calculate_monthly_well_types
ResolveDual(comb) ==
    [i \in 1..Len(comb) |->
        IF comb[i].well_type = "DUAL"
        THEN [comb[i] EXCEPT !.well_type = DominantType(comb[i])]
        ELSE comb[i]]

\* the column selection of calculate_monthly_well_types, a column the table
\* lacks being created with its default
SelectResultColumns(comb) ==
    IF comb = <<>> THEN comb
    ELSE
      LET columns == DOMAIN comb[1]
          result_columns ==
              {"well_name", "year", "month", "well_type",
               "oil_rate", "water_rate", "water_inj_rate"}
              \cup (columns \cap {"has_dual_function", "remarks"})
      IN  [i \in 1..Len(comb) |->
              [col \in result_columns |->
                  IF col \in columns THEN comb[i][col]
                  ELSE IF col \in {"oil_rate", "water_rate", "water_inj_rate"}
                       THEN Zero ELSE <<>>]]

\* the DUAL reclassification and the column selection of
\* calculate_monthly_well_types
FormatMonthlyTypes(comb) == SelectResultColumns(ResolveDual(comb))

-----------------------------------------------------------------------------
(* well_type_calculator.py: the completion-level calculation *)

\* the merge and groupby key: completion_name, well_name, reservoir, year, month
CompletionKey(r) == <<StrRank(r.completion_name), StrRank(r.well_name),
                      StrRank(r.reservoir), r.year, r.month>>

\* sort_values(['well_name', 'completion_name', 'year', 'month'])
CompletionSortKey(r) == <<StrRank(r.well_name), StrRank(r.completion_name),
                          r.year, r.month>>

\* groupby([completion_name, well_name, reservoir, year, month]).agg(sum)
\* .reset_index() of the rate columns cols
GroupByCompletion(rows, cols) ==
    LET keys == SortedKeys({CompletionKey(r) : r \in Range(rows)})
        group(k) == SelectSeq(rows, LAMBDA r : CompletionKey(r) = k)
    IN  [i \in 1..Len(keys) |->
            LET g == group(keys[i])
            IN  [c \in {"completion_name", "well_name", "reservoir",
                        "year", "month"} \cup cols |->
                    IF c \in cols THEN SumColumn(g, c) ELSE g[1][c]]]

\* the per-chunk grouping and the concatenation of the grouped chunks, for
\* chunks of size rows
GroupChunks(rated, cols, size) ==
    LET chunks == Chunks(rated, size)
    IN  Concat([c \in 1..Len(chunks) |-> GroupByCompletion(chunks[c], cols)])

\* completion_to_reservoir.get(comp, 'UNKNOWN')
ReservoirOf(c2r, comp) == IF comp \in DOMAIN c2r THEN c2r[comp] ELSE "UNKNOWN"

\* _process_completion_production_data, for chunks of size rows
ProcessCompletionProduction(prod_data, wtc, c2r, size) ==
    LET completion_to_well == _build_completion_to_well_map(wtc)
        known == SelectSeq(prod_data,
                    LAMBDA r : MapToWell(completion_to_well, r.COMP_S_NAME) # "NaN")
        rated == [i \in 1..Len(known) |->
                    LET r == known[i]
                        days_in_month == DaysInMonth(r.PROD_DT.year, r.PROD_DT.month)
                    IN  [completion_name |-> r.COMP_S_NAME,
                         well_name       |-> MapToWell(completion_to_well,
                                                       r.COMP_S_NAME),
                         reservoir       |-> ReservoirOf(c2r, r.COMP_S_NAME),
                         year            |-> r.PROD_DT.year,
                         month           |-> r.PROD_DT.month,
                         oil_rate        |-> Rat(r.VO_OIL_PROD, days_in_month),
                         water_rate      |-> Rat(r.VO_WAT_PROD, days_in_month),
                         copies          |-> Copies(r)]]
    IN  IF prod_data = <<>> \/ known = <<>> THEN <<>>
        ELSE GroupChunks(rated, {"oil_rate", "water_rate"}, size)

_process_completion_production_data(prod_data, wtc, c2r) ==
    ProcessCompletionProduction(prod_data, wtc, c2r, chunk_size)

\* _process_completion_injection_data, for chunks of size rows
ProcessCompletionInjection(inj_data, wtc, c2r, size) ==
    LET completion_to_well == _build_completion_to_well_map(wtc)
        known == SelectSeq(inj_data,
                    LAMBDA r : MapToWell(completion_to_well,
                                         r.COMPLETION_LEGAL_NAME) # "NaN")
        rated == [i \in 1..Len(known) |->
                    LET r == known[i]
                        days_in_month == DaysInMonth(r.Date.year, r.Date.month)
                    IN  [completion_name |-> r.COMPLETION_LEGAL_NAME,
                         well_name       |-> MapToWell(completion_to_well,
                                                       r.COMPLETION_LEGAL_NAME),
                         reservoir       |-> ReservoirOf(c2r, r.COMPLETION_LEGAL_NAME),
                         year            |-> r.Date.year,
                         month           |-> r.Date.month,
                         water_inj_rate  |-> Rat(r.Water_INJ_CALDAY, days_in_month),
                         copies          |-> Copies(r)]]
    IN  IF inj_data = <<>> \/ known = <<>> THEN <<>>
        ELSE GroupChunks(rated, {"water_inj_rate"}, size)

_process_completion_injection_data(inj_data, wtc, c2r) ==
    ProcessCompletionInjection(inj_data, wtc, c2r, chunk_size)

\* pd.merge(left, right, on=[completion_name, well_name, reservoir, year,
\* month], how='outer') followed by fillna(0.0): keys in sorted order, a key
\* of both tables giving every pair of its left and right rows
MergeCompletion(left, right) ==
    LET keys == SortedKeys({CompletionKey(r) : r \in Range(left)}
                           \cup {CompletionKey(r) : r \in Range(right)})
        row(any, p, j) ==
            [completion_name |-> any.completion_name,
             well_name       |-> any.well_name,
             reservoir       |-> any.reservoir,
             year            |-> any.year,
             month           |-> any.month,
             oil_rate        |-> IF p # <<>> THEN p[1].oil_rate ELSE Zero,
             water_rate      |-> IF p # <<>> THEN p[1].water_rate ELSE Zero,
             water_inj_rate  |-> IF j # <<>> THEN j[1].water_inj_rate ELSE Zero]
        rowsOf(k) ==
            LET L == SelectSeq(left, LAMBDA r : CompletionKey(r) = k)
                R == SelectSeq(right, LAMBDA r : CompletionKey(r) = k)
            IN  IF R = <<>> THEN [a \in 1..Len(L) |-> row(L[a], <<L[a]>>, <<>>)]
                ELSE IF L = <<>> THEN [b \in 1..Len(R) |-> row(R[b], <<>>, <<R[b]>>)]
                ELSE [n \in 1..(Len(L) * Len(R)) |->
                        LET a == ((n - 1) \div Len(R)) + 1
                            b == ((n - 1) % Len(R)) + 1
                        IN  row(L[a], <<L[a]>>, <<R[b]>>)]
    IN  Concat([i \in 1..Len(keys) |-> rowsOf(keys[i])])

\* the merge of each chunk of prod_m with the whole of inj_m
MergeChunks(prod_m, inj_m, size) ==
    LET prod_chunks == Chunks(prod_m, size)
    IN  Concat([c \in 1..Len(prod_chunks) |->
                   MergeCompletion(prod_chunks[c], inj_m)])

\* well_type of a merged completion row: from its own rates, DUAL
\* reclassified to the dominant type
CompletionType(row) ==
    IF CurrentType(row) = "DUAL" THEN DominantType(row) ELSE CurrentType(row)

\* IsActive looking at production alone
IsActive_ProdOnly(row) == IF HasProd(row) THEN 1 ELSE 0

\* is_active of a row: (has_prod | has_inj).astype(int)
IsActive(row) == IF HasProd(row) \/ HasInj(row) THEN 1 ELSE 0

\* sort_values(['well_name', 'completion_name', 'year', 'month'])
SortByCompletion(t) ==
    SortValues(t, [i \in 1..Len(t) |-> CompletionSortKey(t[i])])

\* the sort of each chunk of the merged table and their concatenation
SortChunks(merged, size) ==
    LET result_chunks == Chunks(merged, size)
    IN  Concat([c \in 1..Len(result_chunks) |->
                   SortByCompletion(result_chunks[c])])

\* a row of the result: the merged columns, well_type and is_active
CompletionRow(row, well_type, is_active) ==
    [completion_name |-> row.completion_name,
     well_name       |-> row.well_name,
     reservoir       |-> row.reservoir,
     year            |-> row.year,
     month           |-> row.month,
     oil_rate        |-> row.oil_rate,
     water_rate      |-> row.water_rate,
     water_inj_rate  |-> row.water_inj_rate,
     well_type       |-> well_type,
     is_active       |-> is_active]

\* _combine_completion_data, for chunks of size rows
CombineCompletionData(prod_m, inj_m, size) ==
    IF prod_m = <<>> /\ inj_m = <<>> THEN <<>>
    ELSE IF prod_m = <<>> THEN
        SortByCompletion([i \in 1..Len(inj_m) |->
            LET row == inj_m[i] @@ [oil_rate |-> Zero, water_rate |-> Zero]
            IN  CompletionRow(row, "INJECTION",
                              IF RatPos(row.water_inj_rate) THEN 1 ELSE 0)])
    ELSE IF inj_m = <<>> THEN
        SortByCompletion([i \in 1..Len(prod_m) |->
            LET row == prod_m[i] @@ [water_inj_rate |-> Zero]
            IN  CompletionRow(row, "PRODUCTION",
                              IF RatPos(row.oil_rate) \/ RatPos(row.water_rate)
                              THEN 1 ELSE 0)])
    ELSE
      LET merged == MergeChunks(prod_m, inj_m, size)
      IN  SortChunks([i \in 1..Len(merged) |->
              CompletionRow(merged[i], CompletionType(merged[i]),
                            IsActive(merged[i]))], size)

_combine_completion_data(prod_m, inj_m) ==
    CombineCompletionData(prod_m, inj_m, chunk_size)

\* self.progress_updated.emit(percent, message): a pyqtSignal has emit, the
\* plain function the constructor installs has not
HasEmit(callback) == callback = "signal"

-----------------------------------------------------------------------------
(* The calculator on a loaded store, as a caller that has given it a signal
   for progress_updated uses it *)

Init ==
    /\ pc = "start"
    /\ well_to_completions = <<>>
    /\ completion_to_reservoir = <<>>
    /\ production_data = <<>>
    /\ injection_data = <<>>
    /\ ran = {}
    /\ prod_monthly = <<>>
    /\ inj_monthly = <<>>
    /\ combined = <<>>
    /\ monthly_types = <<>>
    /\ overall_types = <<>>
    /\ prod_completion_data = <<>>
    /\ inj_completion_data = <<>>
    /\ completion_status = <<>>
    /\ historical_types = <<>>
    /\ operations = {}
    /\ well_monthly_type = {}
    /\ sqlite_sequence = 0
    /\ returned = [call |-> "connect"]
    /\ well_reservoir_type = {}
    /\ well_overall_type = {}
    /\ progress_updated = "signal"
    /\ exception = "none"
    /\ worker = [state |-> "none", operation_type |-> "none",
                 stopped_at |-> "none"]
    /\ progress_dialog = "none"
    /\ event_queue = <<>>
    /\ emitted = <<>>

\* WellProductionApp.load_data: the wells, then the two reading tables
load_data ==
    /\ pc = "start"
    /\ \E prod_df \in ProdTables, inj_df \in InjTables :
          /\ production_data' = FilterProduction(prod_df)
          /\ injection_data' = FilterInjection(inj_df)
    /\ well_to_completions' = LoadWellToCompletions(wells_df)
    /\ completion_to_reservoir' = LoadCompletionToReservoir(well_types_df)
    /\ pc' = "ready"
    /\ UNCHANGED <<ran, well_run, completion_run, operations_db, calculator,
                   gui>>

\* a call of WellTypeCalculator.calculate_monthly_well_types
calculate_monthly_well_types ==
    /\ pc = "ready"
    /\ prod_monthly' = _process_production_data(production_data,
                                                well_to_completions)
    /\ inj_monthly' = _process_injection_data(injection_data,
                                              well_to_completions)
    /\ historical_types' = _calculate_historical_well_types(
                                    prod_monthly', inj_monthly')
    /\ combined' = _combine_and_classify_data(prod_monthly', inj_monthly',
                                              historical_types')
    /\ monthly_types' = FormatMonthlyTypes(combined')
    /\ ran' = ran \cup {"well_monthly_type"}
    /\ production_data' = StoreTableAfterRun(production_data, "COMP_S_NAME",
                               _build_completion_to_well_map(well_to_completions))
    /\ injection_data' = StoreTableAfterRun(injection_data,
                              "COMPLETION_LEGAL_NAME",
                              _build_completion_to_well_map(well_to_completions))
    /\ exception' = "none"
    /\ UNCHANGED <<pc, well_to_completions, completion_to_reservoir,
                   completion_run, operations_db, progress_updated, gui,
                   overall_types>>

\* a call of WellTypeCalculator.calculate_completion_status
\* (its first statement is self.progress_updated.emit(...): the lambda of
\* the constructor has no attribute emit, so the call raises there)
calculate_completion_status ==
    /\ pc = "ready"
    /\ IF HasEmit(progress_updated)
       THEN /\ prod_completion_data' = _process_completion_production_data(
                   production_data, well_to_completions,
                   completion_to_reservoir)
            /\ inj_completion_data' = _process_completion_injection_data(
                   injection_data, well_to_completions,
                   completion_to_reservoir)
            /\ completion_status' = _combine_completion_data(
                   prod_completion_data', inj_completion_data')
            /\ ran' = ran \cup {"completion_state"}
            /\ production_data' = StoreTableAfterRun(production_data,
                   "COMP_S_NAME",
                   _build_completion_to_well_map(well_to_completions))
            /\ injection_data' = StoreTableAfterRun(injection_data,
                   "COMPLETION_LEGAL_NAME",
                   _build_completion_to_well_map(well_to_completions))
            /\ exception' = "none"
       ELSE /\ exception' = "AttributeError"
            /\ UNCHANGED <<ran, production_data, injection_data,
                           completion_run>>
    /\ UNCHANGED <<pc, well_to_completions, completion_to_reservoir,
                   well_run, operations_db, progress_updated, gui>>

\* a caller of the calculator: the store is loaded, then the two public
\* operations of a WellTypeCalculator built on it are called, in any order
\* and any number of times
Next ==
    \/ load_data
    \/ calculate_monthly_well_types
    \/ calculate_completion_status

Spec == Init /\ [][Next]_vars

-----------------------------------------------------------------------------
(* calculate_overall_well_types called on a table of monthly well types *)

\* has_dual_function as calculate_overall_well_types computes it for a
\* table without the column: 0, and 1 under the mask
\* (oil_rate > 0) & (water_rate > 0) & (water_inj_rate > 0)
OverallDualFlag(row) ==
    IF RatPos(row.oil_rate) /\ RatPos(row.water_rate)
       /\ RatPos(row.water_inj_rate)
    THEN 1 ELSE 0

\* the remarks calculate_overall_well_types writes for a row with the given
\* flag, as the pieces the text is joined from ('' is <<>>)
OverallRemarks(row, flag) ==
    IF flag = 1
    THEN <<"Dual function well. Total production: ",
           Round2(RatAdd(row.oil_rate, row.water_rate)),
           " bbl/d, Total injection: ", Round2(row.water_inj_rate),
           " bbl/d.">>
    ELSE IF row.well_type = "PRODUCTION"
    THEN <<"Producing well. Oil rate: ", Round2(row.oil_rate),
           " bbl/d, Water rate: ", Round2(row.water_rate), " bbl/d.">>
    ELSE IF row.well_type = "INJECTION"
    THEN <<"Injection well. Injection rate: ",
           Round2(row.water_inj_rate), " bbl/d.">>
    ELSE <<>>

\* WellTypeCalculator.calculate_overall_well_types: every column the table
\* lacks is computed, the columns are selected and the rows sorted
calculate_overall_well_types(monthly_types_df) ==
    IF monthly_types_df = <<>> THEN <<>>
    ELSE
      LET columns == DOMAIN monthly_types_df[1]
          Row(row) ==
            LET flag == IF "has_dual_function" \in columns
                        THEN row.has_dual_function
                        ELSE OverallDualFlag(row)
                primary == IF "primary_type" \in columns
                           THEN row.primary_type ELSE row.well_type
                secondary ==
                    IF "secondary_type" \in columns THEN row.secondary_type
                    ELSE IF flag # 1 THEN "NONE"
                    ELSE IF row.well_type = "PRODUCTION" THEN "INJECTION"
                    ELSE "PRODUCTION"
                remarks == IF "remarks" \in columns THEN row.remarks
                           ELSE OverallRemarks(row, flag)
            IN  [well_name |-> row.well_name, year |-> row.year,
                 month |-> row.month, well_type |-> row.well_type,
                 primary_type |-> primary, secondary_type |-> secondary,
                 has_dual_function |-> flag, remarks |-> remarks,
                 oil_rate |-> row.oil_rate, water_rate |-> row.water_rate,
                 water_inj_rate |-> row.water_inj_rate]
      IN  SortByWell([i \in 1..Len(monthly_types_df) |->
                         Row(monthly_types_df[i])])

\* rows of a table of monthly well types as the operations database
\* returns them (no has_dual_function, no remarks): the type of a month
\* with own rates is the one its rates give, DUAL resolved
MonthlyTypeRows ==
    {r \in [well_name : {"W1"}, year : {2024}, month : {1, 2},
            well_type : {"PRODUCTION", "INJECTION", "UNKNOWN"},
            oil_rate : {Zero, Rat(1, 1)}, water_rate : {Zero, Rat(1, 1)},
            water_inj_rate : {Zero, Rat(2, 1)}] :
        IF HasProd(r) /\ HasInj(r) THEN r.well_type = DominantType(r)
        ELSE IF HasProd(r) THEN r.well_type = "PRODUCTION"
        ELSE IF HasInj(r) THEN r.well_type = "INJECTION"
        ELSE TRUE}

\* tables of at most two months of the well, in the order of the months
MonthlyTypeTables ==
    {t \in Tables(MonthlyTypeRows, 2) :
        \A i, j \in 1..Len(t) : i < j => t[i].month < t[j].month}

OverallInit ==
    /\ pc = "overall"
    /\ well_to_completions = <<>>
    /\ completion_to_reservoir = <<>>
    /\ production_data = <<>>
    /\ injection_data = <<>>
    /\ ran = {}
    /\ prod_monthly = <<>>
    /\ inj_monthly = <<>>
    /\ combined = <<>>
    /\ monthly_types \in MonthlyTypeTables
    /\ overall_types = <<>>
    /\ prod_completion_data = <<>>
    /\ inj_completion_data = <<>>
    /\ completion_status = <<>>
    /\ historical_types = <<>>
    /\ operations = {}
    /\ well_monthly_type = {}
    /\ sqlite_sequence = 0
    /\ returned = [call |-> "connect"]
    /\ well_reservoir_type = {}
    /\ well_overall_type = {}
    /\ progress_updated = "lambda"
    /\ exception = "none"
    /\ worker = [state |-> "none", operation_type |-> "none",
                 stopped_at |-> "none"]
    /\ progress_dialog = "none"
    /\ event_queue = <<>>
    /\ emitted = <<>>

\* a call of calculate_overall_well_types on the table
overall_well_types ==
    /\ pc = "overall"
    /\ overall_types' = calculate_overall_well_types(monthly_types)
    /\ pc' = "overall_done"
    /\ UNCHANGED <<store, ran, prod_monthly, inj_monthly, combined,
                   monthly_types, historical_types, completion_run,
                   operations_db, calculator, gui>>

OverallNext == overall_well_types

SpecOverall == OverallInit /\ [][OverallNext]_vars

-----------------------------------------------------------------------------
(* The calculator called directly: a WellTypeCalculator built on a loaded
   store, whose progress callback is the constructor's until a caller
   installs another *)

CalculatorInit ==
    /\ pc = "ready"
    /\ well_to_completions = LoadWellToCompletions(wells_df)
    /\ completion_to_reservoir = LoadCompletionToReservoir(well_types_df)
    /\ \E prod_df \in {t \in ProdTables : Len(t) <= MaxClassifyRows},
          inj_df \in InjTables :
          /\ production_data = FilterProduction(prod_df)
          /\ injection_data = FilterInjection(inj_df)
    /\ ran = {}
    /\ prod_monthly = <<>>
    /\ inj_monthly = <<>>
    /\ combined = <<>>
    /\ monthly_types = <<>>
    /\ overall_types = <<>>
    /\ prod_completion_data = <<>>
    /\ inj_completion_data = <<>>
    /\ completion_status = <<>>
    /\ historical_types = <<>>
    /\ operations = {}
    /\ well_monthly_type = {}
    /\ sqlite_sequence = 0
    /\ returned = [call |-> "connect"]
    /\ well_reservoir_type = {}
    /\ well_overall_type = {}
    /\ progress_updated = "lambda"
    /\ exception = "none"
    /\ worker = [state |-> "none", operation_type |-> "none",
                 stopped_at |-> "none"]
    /\ progress_dialog = "none"
    /\ event_queue = <<>>
    /\ emitted = <<>>

\* calculator.progress_updated = self.progress_updated (main_app.py, the
\* assignment in calculate_completion_states)
install_progress_updated ==
    /\ pc = "ready"
    /\ progress_updated = "lambda"
    /\ progress_updated' = "signal"
    /\ UNCHANGED <<pc, store, ran, well_run, completion_run, operations_db,
                   exception, gui>>

CalculatorNext ==
    \/ install_progress_updated
    \/ calculate_monthly_well_types
    \/ calculate_completion_status

SpecCalculator == CalculatorInit /\ [][CalculatorNext]_vars

-----------------------------------------------------------------------------
(* The operations database (operations_database.py) and the saving of an
   operation's results (main_app.py) *)

\* operation ids the AUTOINCREMENT column gives out in the model
MaxOperations == 3

\* operation ids the direct calls of the three save functions use
MaxSavedOperations == 2

\* the value create_operation returns from its except branch; the ids of
\* an AUTOINCREMENT column start at 1, so 0 is free to stand for it, and
\* "not operation_id" is true of it
None == 0

\* the two operation types the application runs and saves under
OperationNames == {"well_monthly_type", "completion_state"}

\* the statements of the database code that can raise (every handler
\* catches the exception, rolls back and returns its failure value)
Statements == {"select", "delete", "insert", "save"}

\* rows of a well-level result table handed to the database
ResultRows ==
    { [well_name |-> w, year |-> 2024, month |-> 1, well_type |-> t,
       oil_rate |-> IF t = "PRODUCTION" THEN Rat(1, 1) ELSE Zero,
       water_rate |-> Zero,
       water_inj_rate |-> IF t = "INJECTION" THEN Rat(1, 1) ELSE Zero]
      : w \in {"W1", "W2"}, t \in {"PRODUCTION", "INJECTION"} }

\* result tables of at most two rows
ResultTables == Tables(ResultRows, 2)

\* tables handed to save_well_reservoir_type: no row or one row, its
\* reservoir named or null
ReservoirTables ==
    Tables({ [well_name |-> "W1", reservoir |-> res, year |-> 2024,
              month |-> 1, well_type |-> "PRODUCTION",
              oil_rate |-> Rat(1, 1), water_rate |-> Zero,
              water_inj_rate |-> Zero] : res \in {"UNKNOWN", "NaN"} }, 1)

\* tables handed to save_well_overall_type: no row or one row, its
\* secondary_type given or null
OverallTables ==
    Tables({ [well_name |-> "W1", year |-> 2024, month |-> 1,
              well_type |-> "PRODUCTION", primary_type |-> "PRODUCTION",
              secondary_type |-> sec, has_dual_function |-> 0,
              remarks |-> ""] : sec \in {"NONE", "NaN"} }, 1)

\* the results dictionaries of the two workers: the well operation gives
\* {'monthly_types': table}, the completion operation
\* {'completion_status': table}
ResultDicts ==
    {[monthly_types |-> t] : t \in ResultTables}
      \cup {[completion_status |-> <<>>]}

\* the database as a value: the two tables and the AUTOINCREMENT counter
Database ==
    [operations |-> operations, well_monthly_type |-> well_monthly_type,
     sqlite_sequence |-> sqlite_sequence,
     well_reservoir_type |-> well_reservoir_type,
     well_overall_type |-> well_overall_type]

\* delete_operation removing the operations row only
DeleteOperation_OperationsOnly(db, operation_id, faults) ==
    IF "delete" \in faults
    THEN [db |-> db, value |-> FALSE]
    ELSE [db |-> [db EXCEPT
                    !.operations =
                        {o \in @ : o.operation_id # operation_id}],
          value |-> TRUE]

\* OperationsDatabase.delete_operation: the rows of the operation leave
\* every table in one transaction; an exception rolls the transaction back
DeleteOperation(db, operation_id, faults) ==
    IF "delete" \in faults
    THEN [db |-> db, value |-> FALSE]
    ELSE [db |-> [db EXCEPT
                    !.operations =
                        {o \in @ : o.operation_id # operation_id},
                    !.well_overall_type =
                        {r \in @ : r.operation_id # operation_id},
                    !.well_monthly_type =
                        {r \in @ : r.operation_id # operation_id},
                    !.well_reservoir_type =
                        {r \in @ : r.operation_id # operation_id}],
          value |-> TRUE]

\* OperationsDatabase.create_operation: existing is the row fetchone gave
\* for the name (<<>> when there is none)
CreateOperation(db, operation_name, existing, faults) ==
    IF "select" \in faults
    THEN [db |-> db, value |-> None]
    ELSE LET deleted == IF existing # <<>>
                        THEN DeleteOperation(db, existing[1], faults).db
                        ELSE db
             id == deleted.sqlite_sequence + 1
         IN  IF "insert" \in faults
             THEN [db |-> deleted, value |-> None]
             ELSE [db |-> [deleted EXCEPT
                             !.operations = @ \cup
                                 {[operation_id |-> id,
                                   operation_name |-> operation_name]},
                             !.sqlite_sequence = id],
                   value |-> id]

\* INSERT OR REPLACE of the rows df[i..] under the UNIQUE key
\* (operation_id, well_name, year, month)
RECURSIVE InsertOrReplace(_, _, _, _)
InsertOrReplace(table, operation_id, df, i) ==
    IF i > Len(df) THEN table
    ELSE LET row == [operation_id |-> operation_id] @@ df[i]
         IN  InsertOrReplace(
                 {r \in table : ~ /\ r.operation_id = operation_id
                                  /\ r.well_name = row.well_name
                                  /\ r.year = row.year
                                  /\ r.month = row.month} \cup {row},
                 operation_id, df, i + 1)

\* df[df['well_name'].notna()]: the rows that have a well name
WellNameNotNa(df) == SelectSeq(df, LAMBDA r : r.well_name # "NaN")

\* save_well_monthly_type with a plain INSERT in place of INSERT OR REPLACE
SaveWellMonthlyType_Append(db, operation_id, df, faults) ==
    IF df = <<>> THEN [db |-> db, value |-> TRUE]
    ELSE IF "save" \in faults THEN [db |-> db, value |-> FALSE]
    ELSE [db |-> [db EXCEPT !.well_monthly_type =
                      @ \cup {[operation_id |-> operation_id]
                                 @@ WellNameNotNa(df)[i]
                                 : i \in 1..Len(WellNameNotNa(df))}],
          value |-> TRUE]

\* OperationsDatabase.save_well_monthly_type (the tables of the model fit
\* in one chunk of 500 rows)
SaveWellMonthlyType(db, operation_id, df, faults) ==
    IF df = <<>> THEN [db |-> db, value |-> TRUE]
    ELSE IF "save" \in faults THEN [db |-> db, value |-> FALSE]
    ELSE [db |-> [db EXCEPT !.well_monthly_type =
                      InsertOrReplace(@, operation_id,
                                      WellNameNotNa(df), 1)],
          value |-> TRUE]

\* a row of save_well_reservoir_type after "Handle null reservoirs": a
\* missing reservoir column was added as None, and None and NaN are
\* filled with 'UNKNOWN'
FillReservoir(r) ==
    IF "reservoir" \notin DOMAIN r THEN r @@ [reservoir |-> "UNKNOWN"]
    ELSE IF r.reservoir = "NaN" THEN [r EXCEPT !.reservoir = "UNKNOWN"]
    ELSE r

\* INSERT OR REPLACE of the rows df[i..] under the UNIQUE key
\* (operation_id, well_name, reservoir, year, month)
RECURSIVE InsertOrReplaceReservoir(_, _, _, _)
InsertOrReplaceReservoir(table, operation_id, df, i) ==
    IF i > Len(df) THEN table
    ELSE LET row == [operation_id |-> operation_id] @@ df[i]
         IN  InsertOrReplaceReservoir(
                 {r \in table : ~ /\ r.operation_id = operation_id
                                  /\ r.well_name = row.well_name
                                  /\ r.reservoir = row.reservoir
                                  /\ r.year = row.year
                                  /\ r.month = row.month} \cup {row},
                 operation_id, df, i + 1)

\* OperationsDatabase.save_well_reservoir_type (the tables of the model
\* fit in one chunk of 500 rows)
SaveWellReservoirType(db, operation_id, df, faults) ==
    IF df = <<>> THEN [db |-> db, value |-> TRUE]
    ELSE IF "save" \in faults THEN [db |-> db, value |-> FALSE]
    ELSE LET named == WellNameNotNa(df)
             rows == [i \in 1..Len(named) |-> FillReservoir(named[i])]
         IN  [db |-> [db EXCEPT !.well_reservoir_type =
                          InsertOrReplaceReservoir(@, operation_id,
                                                   rows, 1)],
              value |-> TRUE]

\* Series.isna of one cell: the cell holds NaN and no value of its column
\* (a number is told from the string by its text)
IsNa(cell) == ToString(cell) = ToString("NaN")

\* a row of save_well_overall_type after the missing columns were added
\* ('' for remarks, primary_type and secondary_type, 0 for
\* has_dual_function) and the NaN values replaced by their defaults
\* ('UNKNOWN', 'NONE', '' and 0)
FillOverall(r) ==
    LET full == r @@ [primary_type |-> "", secondary_type |-> "",
                      has_dual_function |-> 0, remarks |-> ""]
    IN  [full EXCEPT
           !.primary_type = IF IsNa(@) THEN "UNKNOWN" ELSE @,
           !.secondary_type = IF IsNa(@) THEN "NONE" ELSE @,
           !.remarks = IF IsNa(@) THEN "" ELSE @,
           !.has_dual_function = IF IsNa(@) THEN 0 ELSE @]

\* OperationsDatabase.save_well_overall_type (the tables of the model fit
\* in one chunk of 500 rows); well_overall_type has the UNIQUE key of
\* well_monthly_type
SaveWellOverallType(db, operation_id, df, faults) ==
    IF df = <<>> THEN [db |-> db, value |-> TRUE]
    ELSE IF "save" \in faults THEN [db |-> db, value |-> FALSE]
    ELSE LET named == WellNameNotNa(df)
             rows == [i \in 1..Len(named) |-> FillOverall(named[i])]
         IN  [db |-> [db EXCEPT !.well_overall_type =
                          InsertOrReplace(@, operation_id, rows, 1)],
              value |-> TRUE]

\* WellProductionApp.save_operation_results; OperationsDatabase has no
\* save_completion_status, so the call of line 1007 raises and the
\* handler returns False from its except branch
SaveOperationResults(db, operation_type, results, existing, faults) ==
    LET created == CreateOperation(db, operation_type, existing, faults)
    IN  IF created.value = None
        THEN [db |-> created.db, value |-> FALSE]
        ELSE IF /\ "monthly_types" \in DOMAIN results
                /\ results.monthly_types # <<>>
        THEN LET saved == SaveWellMonthlyType(created.db, created.value,
                                              results.monthly_types, faults)
             IN  IF ~saved.value
                 THEN [db |-> saved.db, value |-> FALSE]
                 ELSE IF /\ "completion_status" \in DOMAIN results
                         /\ results.completion_status # <<>>
                 THEN [db |-> saved.db, value |-> FALSE]
                 ELSE [db |-> saved.db, value |-> TRUE]
        ELSE [db |-> created.db, value |-> FALSE]

\* what fetchone can give for "SELECT operation_id ... WHERE
\* operation_name = ?" (no ORDER BY): <<>> for no row, else one of the rows
Fetchone(operation_name) ==
    LET found == {o \in operations : o.operation_name = operation_name}
    IN  IF found = {} THEN {<<>>}
        ELSE {<<o.operation_id>> : o \in found}

\* the database after a call
Stored(db) ==
    /\ operations' = db.operations
    /\ well_monthly_type' = db.well_monthly_type
    /\ sqlite_sequence' = db.sqlite_sequence
    /\ well_reservoir_type' = db.well_reservoir_type
    /\ well_overall_type' = db.well_overall_type

OpsInit ==
    /\ pc = "connected"
    /\ well_to_completions = <<>>
    /\ completion_to_reservoir = <<>>
    /\ production_data = <<>>
    /\ injection_data = <<>>
    /\ ran = {}
    /\ prod_monthly = <<>>
    /\ inj_monthly = <<>>
    /\ combined = <<>>
    /\ monthly_types = <<>>
    /\ overall_types = <<>>
    /\ prod_completion_data = <<>>
    /\ inj_completion_data = <<>>
    /\ completion_status = <<>>
    /\ historical_types = <<>>
    /\ operations = {}
    /\ well_monthly_type = {}
    /\ sqlite_sequence = 0
    /\ returned = [call |-> "connect"]
    /\ well_reservoir_type = {}
    /\ well_overall_type = {}
    /\ progress_updated = "signal"
    /\ exception = "none"
    /\ worker = [state |-> "none", operation_type |-> "none",
                 stopped_at |-> "none"]
    /\ progress_dialog = "none"
    /\ event_queue = <<>>
    /\ emitted = <<>>

\* a call of OperationsDatabase.create_operation
create_operation ==
    /\ pc = "connected"
    /\ sqlite_sequence < MaxOperations
    /\ \E operation_name \in OperationNames,
          faults \in SUBSET (Statements \ {"save"}) :
        \E existing \in Fetchone(operation_name) :
          LET r == CreateOperation(Database, operation_name, existing,
                                   faults)
          IN  /\ Stored(r.db)
              /\ returned' = [call |-> "create_operation",
                              operation_name |-> operation_name,
                              value |-> r.value]
    /\ UNCHANGED <<pc, store, ran, well_run, completion_run, calculator, gui>>

\* a call of OperationsDatabase.delete_operation
delete_operation ==
    /\ pc = "connected"
    /\ \E operation_id \in 1..MaxOperations, faults \in SUBSET {"delete"} :
          LET r == DeleteOperation(Database, operation_id, faults)
          IN  /\ Stored(r.db)
              /\ returned' = [call |-> "delete_operation",
                              operation_id |-> operation_id,
                              value |-> r.value]
    /\ UNCHANGED <<pc, store, ran, well_run, completion_run, calculator, gui>>

\* a call of WellProductionApp.save_operation_results
save_operation_results ==
    /\ pc = "connected"
    /\ sqlite_sequence < MaxOperations
    /\ \E results \in ResultDicts, faults \in SUBSET Statements :
          LET operation_type ==
                  IF "monthly_types" \in DOMAIN results
                  THEN "well_monthly_type" ELSE "completion_state"
          IN  \E existing \in Fetchone(operation_type) :
                LET r == SaveOperationResults(Database, operation_type,
                                              results, existing, faults)
                IN  /\ Stored(r.db)
                    /\ returned' = [call |-> "save_operation_results",
                                    operation_name |-> operation_type,
                                    value |-> r.value]
    /\ UNCHANGED <<pc, store, ran, well_run, completion_run, calculator, gui>>

OpsNext ==
    \/ create_operation
    \/ delete_operation
    \/ save_operation_results

SpecOps == OpsInit /\ [][OpsNext]_vars

\* a call of OperationsDatabase.save_well_monthly_type
save_well_monthly_type ==
    /\ pc = "connected"
    /\ \E operation_id \in 1..MaxSavedOperations, df \in ResultTables,
          faults \in SUBSET {"save"} :
          LET r == SaveWellMonthlyType(Database, operation_id, df, faults)
          IN  /\ Stored(r.db)
              /\ returned' = [call |-> "save_well_monthly_type",
                              operation_id |-> operation_id,
                              df |-> df,
                              value |-> r.value]
    /\ UNCHANGED <<pc, store, ran, well_run, completion_run, calculator, gui>>

\* a call of OperationsDatabase.save_well_reservoir_type
save_well_reservoir_type ==
    /\ pc = "connected"
    /\ \E operation_id \in 1..MaxSavedOperations, df \in ReservoirTables,
          faults \in SUBSET {"save"} :
          LET r == SaveWellReservoirType(Database, operation_id, df, faults)
          IN  /\ Stored(r.db)
              /\ returned' = [call |-> "save_well_reservoir_type",
                              operation_id |-> operation_id,
                              df |-> df,
                              value |-> r.value]
    /\ UNCHANGED <<pc, store, ran, well_run, completion_run, calculator, gui>>

\* a call of OperationsDatabase.save_well_overall_type
save_well_overall_type ==
    /\ pc = "connected"
    /\ \E operation_id \in 1..MaxSavedOperations, df \in OverallTables,
          faults \in SUBSET {"save"} :
          LET r == SaveWellOverallType(Database, operation_id, df, faults)
          IN  /\ Stored(r.db)
              /\ returned' = [call |-> "save_well_overall_type",
                              operation_id |-> operation_id,
                              df |-> df,
                              value |-> r.value]
    /\ UNCHANGED <<pc, store, ran, well_run, completion_run, calculator, gui>>

\* any sequence of saves of result tables into the connected database
SavesNext ==
    \/ save_well_monthly_type
    \/ save_well_reservoir_type
    \/ save_well_overall_type

SpecSaves == OpsInit /\ [][SavesNext]_vars

-----------------------------------------------------------------------------
(* A run of an operation from the menu (main_app.py): the handler builds
   the progress dialog and the worker, starts the worker and stays in the
   dialog's event loop; the worker is a thread of its own *)

\* the signal operation_completed(success, result), with the operation
\* type the connected lambda carries
OperationCompleted(success, result, operation_type) ==
    [signal |-> "operation_completed", success |-> success,
     result |-> result, operation_type |-> operation_type]

\* what the thread started by worker.start() executes: class
\* OperationWorker defines __init__ only (def run is a function of the
\* module, not a method), so the thread executes QThread.run, which enters
\* the thread's event loop, emits nothing and does not return
ThreadRun(operation_type) == [emits |-> <<>>, returns |-> FALSE]

\* WellProductionApp.on_operation_completed for a delivered signal ev: on
\* success the dialog shows completion and the results are saved; on
\* failure the dialog shows the error
on_operation_completed(db, dialog, ev, existing, faults) ==
    IF ev.success
    THEN LET saved == SaveOperationResults(db, ev.operation_type, ev.result,
                                           existing, faults)
         IN  [db |-> saved.db,
              dialog |-> IF dialog = "open" THEN "complete" ELSE dialog,
              returned |-> [call |-> "save_operation_results",
                            operation_name |-> ev.operation_type,
                            value |-> saved.value]]
    ELSE [db |-> db,
          dialog |-> IF dialog = "open" THEN "failed" ELSE dialog,
          returned |-> returned]

\* an operations store left by earlier sessions: at most one operation of
\* each type, the well operation with its result rows
StoresBefore ==
    LET op1 == [operation_id |-> 1, operation_name |-> "well_monthly_type"]
        op2 == [operation_id |-> 2, operation_name |-> "completion_state"]
    IN  {[operations |-> ops, well_monthly_type |-> rows,
          sqlite_sequence |-> IF op2 \in ops THEN 2
                              ELSE IF op1 \in ops THEN 1 ELSE 0,
          well_reservoir_type |-> {}, well_overall_type |-> {}]
           : ops \in SUBSET {op1, op2},
             rows \in {InsertOrReplace({}, 1, t, 1) : t \in ResultTables}}

NoWorker == [state |-> "none", operation_type |-> "none",
             stopped_at |-> "none"]

WorkerInit ==
    /\ pc = "connected"
    /\ well_to_completions = <<>>
    /\ completion_to_reservoir = <<>>
    /\ production_data = <<>>
    /\ injection_data = <<>>
    /\ ran = {}
    /\ prod_monthly = <<>>
    /\ inj_monthly = <<>>
    /\ combined = <<>>
    /\ monthly_types = <<>>
    /\ overall_types = <<>>
    /\ prod_completion_data = <<>>
    /\ inj_completion_data = <<>>
    /\ completion_status = <<>>
    /\ historical_types = <<>>
    /\ \E db \in StoresBefore :
          /\ (db.well_monthly_type # {} =>
                 \E o \in db.operations : o.operation_id = 1)
          /\ operations = db.operations
          /\ well_monthly_type = db.well_monthly_type
          /\ sqlite_sequence = db.sqlite_sequence
          /\ well_reservoir_type = db.well_reservoir_type
          /\ well_overall_type = db.well_overall_type
    /\ returned = [call |-> "connect"]
    /\ progress_updated = "signal"
    /\ exception = "none"
    /\ worker = NoWorker
    /\ progress_dialog = "none"
    /\ event_queue = <<>>
    /\ emitted = <<>>

\* the main thread is inside an event loop: the dialog's exec_() or, once
\* the handler has returned, the application's
InEventLoop ==
    \/ progress_dialog \in {"open", "complete", "failed"}
    \/ progress_dialog = "accepted"
    \/ progress_dialog = "rejected" /\ worker.state = "terminated"

\* no run is between worker.start() and the return of its handler
NoRunInProgress ==
    \/ worker.state = "none"
    \/ progress_dialog = "accepted"
    \/ progress_dialog = "rejected" /\ worker.state = "terminated"

\* WellProductionApp.run_well_type_operation and
\* run_completion_state_operation (the same handler but for the operation
\* type) up to progress_dialog.exec_(): when an operation of the type is
\* stored the user is asked, and the handler returns on "No"
run_operation ==
    /\ pc = "connected"
    /\ NoRunInProgress
    /\ sqlite_sequence < MaxOperations
    /\ \E operation_type \in OperationNames, answer \in {"Yes", "No"} :
          IF /\ \E o \in operations : o.operation_name = operation_type
             /\ answer = "No"
          THEN UNCHANGED <<worker, progress_dialog, emitted>>
          ELSE /\ worker' = [state |-> "started",
                             operation_type |-> operation_type,
                             stopped_at |-> "none"]
               /\ progress_dialog' = "open"
               /\ emitted' = <<>>
    /\ UNCHANGED <<pc, store, ran, well_run, completion_run, operations_db,
                   calculator, event_queue>>

\* the worker thread gets the processor and executes its body
thread_run ==
    /\ worker.state = "started"
    /\ LET r == ThreadRun(worker.operation_type)
       IN  /\ emitted' = emitted \o r.emits
           /\ event_queue' = event_queue \o r.emits
           /\ worker' = [worker EXCEPT
                           !.state = IF r.returns THEN "finished"
                                     ELSE "exec"]
    /\ UNCHANGED <<pc, store, ran, well_run, completion_run, operations_db,
                   calculator, progress_dialog>>

\* one event of the main thread's event loop: a queued operation_completed
\* is delivered to on_operation_completed, or the user presses the
\* dialog's button (Cancel while the run is in progress, OK after it)
process_events ==
    /\ InEventLoop
    /\ \E what \in {"posted", "button"} :
          IF what = "posted" /\ event_queue # <<>>
          THEN \E existing \in Fetchone(Head(event_queue).operation_type),
                  faults \in SUBSET Statements :
                  LET r == on_operation_completed(Database, progress_dialog,
                               Head(event_queue), existing, faults)
                  IN  /\ Stored(r.db)
                      /\ returned' = r.returned
                      /\ progress_dialog' = r.dialog
                      /\ event_queue' = Tail(event_queue)
          ELSE /\ progress_dialog \in {"open", "complete", "failed"}
               /\ progress_dialog' = IF progress_dialog = "open"
                                     THEN "rejected" ELSE "accepted"
               /\ UNCHANGED <<operations_db, event_queue>>
    /\ UNCHANGED <<pc, store, ran, well_run, completion_run, calculator,
                   worker, emitted>>

\* the rest of the menu handler after exec_() returned with the dialog
\* rejected: worker.terminate(); worker.wait()
terminate_worker ==
    /\ progress_dialog = "rejected"
    /\ worker.state # "terminated"
    /\ worker' = [worker EXCEPT !.state = "terminated",
                                !.stopped_at = worker.state]
    /\ UNCHANGED <<pc, store, ran, well_run, completion_run, operations_db,
                   calculator, progress_dialog, event_queue, emitted>>

WorkerNext ==
    \/ run_operation
    \/ thread_run
    \/ process_events
    \/ terminate_worker

SpecWorker == WorkerInit /\ [][WorkerNext]_vars

-----------------------------------------------------------------------------
(* Deleting operations from a filled store *)

\* a row of well_reservoir_type saved under an operation id
ReservoirRow(operation_id) ==
    [operation_id |-> operation_id, well_name |-> "W1",
     reservoir |-> "UNKNOWN", year |-> 2024, month |-> 1,
     well_type |-> "PRODUCTION", oil_rate |-> Rat(1, 1),
     water_rate |-> Zero, water_inj_rate |-> Zero]

\* a row of well_overall_type saved under an operation id
OverallRow(operation_id) ==
    [operation_id |-> operation_id, well_name |-> "W1", year |-> 2024,
     month |-> 1, well_type |-> "PRODUCTION",
     primary_type |-> "PRODUCTION", secondary_type |-> "NONE",
     has_dual_function |-> 0, remarks |-> ""]

\* a row of well_monthly_type saved under an operation id
MonthlyRow(operation_id) ==
    [operation_id |-> operation_id] @@
        (CHOOSE r \in ResultRows :
            r.well_name = "W1" /\ r.well_type = "PRODUCTION")

\* the store after operations 1..MaxOperations were created and results
\* were saved under some of them, some of the operations deleted again
DeleteInit ==
    /\ pc = "connected"
    /\ well_to_completions = <<>>
    /\ completion_to_reservoir = <<>>
    /\ production_data = <<>>
    /\ injection_data = <<>>
    /\ ran = {}
    /\ prod_monthly = <<>>
    /\ inj_monthly = <<>>
    /\ combined = <<>>
    /\ monthly_types = <<>>
    /\ overall_types = <<>>
    /\ prod_completion_data = <<>>
    /\ inj_completion_data = <<>>
    /\ completion_status = <<>>
    /\ historical_types = <<>>
    /\ \E ops, monthly, reservoir, overall \in SUBSET (1..MaxOperations) :
          /\ operations =
                {[operation_id |-> id,
                  operation_name |-> IF id % 2 = 1 THEN "well_monthly_type"
                                     ELSE "completion_state"] : id \in ops}
          /\ well_monthly_type = {MonthlyRow(id) : id \in monthly}
          /\ well_reservoir_type = {ReservoirRow(id) : id \in reservoir}
          /\ well_overall_type = {OverallRow(id) : id \in overall}
    /\ sqlite_sequence = MaxOperations
    /\ returned = [call |-> "connect"]
    /\ progress_updated = "signal"
    /\ exception = "none"
    /\ worker = NoWorker
    /\ progress_dialog = "none"
    /\ event_queue = <<>>
    /\ emitted = <<>>

DeleteNext == delete_operation

SpecDelete == DeleteInit /\ [][DeleteNext]_vars

\* the scheduler runs a started thread, the handler that has left exec_()
\* goes on to terminate the worker, and the event loop delivers a queued
\* signal; the user is not bound to press any button
LiveSpecWorker ==
    /\ SpecWorker
    /\ WF_vars(thread_run)
    /\ WF_vars(terminate_worker)
    /\ WF_vars(process_events /\ event_queue # <<>>)

-----------------------------------------------------------------------------
(* Properties *)

WellRan == "well_monthly_type" \in ran

CompletionRan == "completion_state" \in ran

\* what a row's own rates show
OwnProduction(row) == row.oil_rate.num > 0 \/ row.water_rate.num > 0

OwnInjection(row) == row.water_inj_rate.num > 0

Observed(row) == OwnProduction(row) \/ OwnInjection(row)

OwnMode(row) ==
    IF OwnProduction(row) /\ OwnInjection(row) THEN "DUAL"
    ELSE IF OwnProduction(row) THEN "PRODUCTION" ELSE "INJECTION"

\* row q is of an earlier month than row r
Earlier(q, r) == q.year < r.year \/ (q.year = r.year /\ q.month < r.month)

\* the observed rows of table t for the same well as r, of earlier months
ObservedBeforeInWell(t, r) ==
    {q \in Range(t) : q.well_name = r.well_name /\ Earlier(q, r) /\ Observed(q)}

\* the latest row of a non-empty set of rows of distinct months
Latest(S) == CHOOSE q \in S : \A p \in S : ~Earlier(q, p)

\* C1: at well level a month whose own rates show production, injection or
\* both has, before the DUAL reclassification, the mode those rates give:
\* DUAL for both, PRODUCTION for production only, INJECTION for injection
\* only, whatever the other months of the well are.
C1_OwnRatesDecideMode ==
    WellRan =>
        \A row \in Range(combined) :
            Observed(row) => row.well_type = OwnMode(row)

\* C1 witness: a production-only month classified PRODUCTION right after a
\* DUAL month of the same well.
C1_Witness ==
    /\ WellRan
    /\ \E q, r \in Range(combined) :
          /\ q.well_name = r.well_name /\ Earlier(q, r)
          /\ OwnMode(q) = "DUAL" /\ Observed(q) /\ q.well_type = "DUAL"
          /\ Observed(r) /\ OwnMode(r) = "PRODUCTION"
          /\ r.well_type = "PRODUCTION"

\* C2: at well level a month without production and injection that follows
\* an observed month of the same well has the mode of the nearest preceding
\* observed month, however many gap months lie between them.
C2_GapCarriesNearestObserved ==
    WellRan =>
        \A r \in Range(combined) :
            (~Observed(r) /\ ObservedBeforeInWell(combined, r) # {}) =>
                r.well_type = OwnMode(Latest(ObservedBeforeInWell(combined, r)))

\* C2 witness: production, two gap months carrying PRODUCTION, then
\* injection, in four successive months of one well.
C2_Witness ==
    /\ WellRan
    /\ \E a, b, c, d \in Range(combined) :
          /\ a.well_name = b.well_name /\ b.well_name = c.well_name
          /\ c.well_name = d.well_name
          /\ Earlier(a, b) /\ Earlier(b, c) /\ Earlier(c, d)
          /\ Observed(a) /\ a.well_type = "PRODUCTION"
          /\ ~Observed(b) /\ b.well_type = "PRODUCTION"
          /\ ~Observed(c) /\ c.well_type = "PRODUCTION"
          /\ Observed(d) /\ d.well_type = "INJECTION"

\* C3: at well level a gap month before every observed month of its well
\* has the seed of the well's history: PRODUCTION with production history
\* (alone or with injection history), INJECTION with injection history
\* alone, and UNKNOWN only without any history.
C3_LeadingGapsTakeSeed ==
    WellRan =>
        \A r \in Range(combined) :
            (~Observed(r) /\ ObservedBeforeInWell(combined, r) = {}) =>
                LET history == _calculate_historical_well_types(
                                   prod_monthly, inj_monthly)[r.well_name]
                IN  /\ history.has_production_history =>
                           r.well_type = "PRODUCTION"
                    /\ (~history.has_production_history
                        /\ history.has_injection_history) =>
                           r.well_type = "INJECTION"
                    /\ r.well_type = "UNKNOWN" =>
                           (~history.has_production_history
                            /\ ~history.has_injection_history)

\* oil_rate + water_rate >= water_inj_rate, on the fractions of the row
ProductionDominates(row) ==
    (row.oil_rate.num * row.water_rate.den + row.water_rate.num * row.oil_rate.den)
        * row.water_inj_rate.den
    >= row.water_inj_rate.num * row.oil_rate.den * row.water_rate.den

Dominant(row) == IF ProductionDominates(row) THEN "PRODUCTION" ELSE "INJECTION"

SameMonth(q, r) ==
    q.well_name = r.well_name /\ q.year = r.year /\ q.month = r.month

RatesRow(oil, water, inj) ==
    [oil_rate |-> Rat(oil, 1), water_rate |-> Rat(water, 1),
     water_inj_rate |-> Rat(inj, 1)]

\* C4: a month whose mode is DUAL is output as PRODUCTION when
\* oil_rate + water_rate >= water_inj_rate and as INJECTION otherwise, in the
\* well-level table and in the completion-level table; rates (5, 3, 4) give
\* PRODUCTION and rates (1, 0, 10) give INJECTION.
C4_DualResolvedByDominantRate ==
    /\ WellRan =>
          \A c \in Range(combined) :
              c.well_type = "DUAL" =>
                  /\ \E m \in Range(monthly_types) : SameMonth(c, m)
                  /\ \A m \in Range(monthly_types) :
                         SameMonth(c, m) => m.well_type = Dominant(c)
    /\ CompletionRan =>
          \A row \in Range(completion_status) :
              (OwnProduction(row) /\ OwnInjection(row)) =>
                  row.well_type = Dominant(row)
    /\ DominantType(RatesRow(5, 3, 4)) = "PRODUCTION"
    /\ DominantType(RatesRow(1, 0, 10)) = "INJECTION"

\* C4 witness: a well-level DUAL month with production equal to injection,
\* output as PRODUCTION, and a completion of that well with both rates,
\* output as INJECTION.
C4_Witness ==
    /\ WellRan /\ CompletionRan
    /\ \E c \in Range(combined), m \in Range(monthly_types) :
          /\ SameMonth(c, m) /\ c.well_type = "DUAL"
          /\ RatAdd(c.oil_rate, c.water_rate) = c.water_inj_rate
          /\ m.well_type = "PRODUCTION"
    /\ \E row \in Range(completion_status) :
          /\ OwnProduction(row) /\ OwnInjection(row)
          /\ row.well_type = "INJECTION"

\* C5: no row of the well-level result and no row of the completion-level
\* result has well_type DUAL: each is PRODUCTION, INJECTION or UNKNOWN.
C5_NoDualInOutput ==
    /\ WellRan =>
          \A row \in Range(monthly_types) :
              row.well_type \in {"PRODUCTION", "INJECTION", "UNKNOWN"}
    /\ CompletionRan =>
          \A row \in Range(completion_status) :
              row.well_type \in {"PRODUCTION", "INJECTION", "UNKNOWN"}

\* C5 witness: the classification gave DUAL to an observed month and to a
\* gap month after it, and a completion has both rates in one month.
C5_Witness ==
    /\ WellRan /\ CompletionRan
    /\ \E c, g \in Range(combined) :
          /\ c.well_type = "DUAL" /\ Observed(c)
          /\ g.well_type = "DUAL" /\ ~Observed(g)
    /\ \E row \in Range(completion_status) :
          OwnProduction(row) /\ OwnInjection(row)

\* C6: in every row of the completion-level result is_active is 1 exactly
\* when the row's own oil, water or injection rate is > 0, and 0 otherwise.
C6_ActiveIffOwnRates ==
    CompletionRan =>
        \A row \in Range(completion_status) :
            /\ row.is_active \in {0, 1}
            /\ row.is_active = 1 <=> Observed(row)

\* C6 witness: a row typed PRODUCTION that is not active, next to an
\* active row (the production-only path).
C6_Witness ==
    /\ CompletionRan
    /\ \E g, a \in Range(completion_status) :
          /\ g.well_type = "PRODUCTION" /\ g.is_active = 0 /\ ~Observed(g)
          /\ a.is_active = 1 /\ Observed(a)

RateColumns == {"oil_rate", "water_rate", "water_inj_rate"}

\* C7: for every well and month the completion-level rows of that well and
\* month sum, rate by rate, to the rates of the well-level row, whatever
\* the number of readings is relative to the chunk size.
C7_CompletionRatesSumToWellRates ==
    (WellRan /\ CompletionRan) =>
        \A m \in Range(monthly_types) :
            \A col \in RateColumns :
                SumColumn(SelectSeq(completion_status,
                                    LAMBDA row : SameMonth(row, m)), col)
                = m[col]

\* how many times row occurs in table t
Occurrences(t, row) == Cardinality({i \in 1..Len(t) : t[i] = row})

\* tables a and b hold the same rows, each as many times
SameRows(a, b) ==
    \A row \in Range(a) \cup Range(b) : Occurrences(a, row) = Occurrences(b, row)

\* a chunk size no table of the run reaches
OneChunk == Rows(production_data) + Rows(injection_data) + 1

\* the completion-level result computed in a single chunk
UnchunkedCompletionStatus ==
    CombineCompletionData(
        ProcessCompletionProduction(production_data, well_to_completions,
                                    completion_to_reservoir, OneChunk),
        ProcessCompletionInjection(injection_data, well_to_completions,
                                   completion_to_reservoir, OneChunk),
        OneChunk)

\* C8: the completion-level result holds the same rows as the computation
\* done in a single chunk.
C8_ChunkingKeepsRows ==
    CompletionRan =>
        SameRows(completion_status, UnchunkedCompletionStatus)

\* the sum of the column col of the raw rows that the records of the set of
\* indices I of t stand for
RECURSIVE SumVolumes(_, _, _)
SumVolumes(t, I, col) ==
    IF I = {} THEN 0
    ELSE LET i == CHOOSE x \in I : TRUE
         IN  Copies(t[i]) * t[i][col] + SumVolumes(t, I \ {i}, col)

WellOf(comp) ==
    CHOOSE w \in DOMAIN well_to_completions : comp \in Range(well_to_completions[w])

ProdColumns == [oil_rate |-> "VO_OIL_PROD", water_rate |-> "VO_WAT_PROD"]

InjColumns == [water_inj_rate |-> "Water_INJ_CALDAY"]

\* table agg has exactly one row per key of the mapped readings of raw, with
\* each rate column the group's summed volume over the days of the month;
\* the key is (entity, year, month), the entity being the well ("well_name")
\* or the completion ("completion_name") of the reading; comp and date name
\* the completion and date columns of raw, cols maps a rate column to its
\* volume column
AggregatesOnce(agg, raw, comp, date, entity, cols) ==
    LET mapped == {i \in 1..Len(raw) :
                      \E w \in DOMAIN well_to_completions :
                          raw[i][comp] \in Range(well_to_completions[w])}
        KeyOfRaw(r) == <<IF entity = "well_name" THEN WellOf(r[comp]) ELSE r[comp],
                         r[date].year, r[date].month>>
        KeyOfRow(row) == <<row[entity], row.year, row.month>>
    IN  /\ {KeyOfRow(row) : row \in Range(agg)} = {KeyOfRaw(raw[i]) : i \in mapped}
        /\ \A i, j \in 1..Len(agg) : KeyOfRow(agg[i]) = KeyOfRow(agg[j]) => i = j
        /\ \A row \in Range(agg) : \A c \in DOMAIN cols :
              LET group == {i \in mapped : KeyOfRaw(raw[i]) = KeyOfRow(row)}
              IN  row[c].num * DaysInMonth(row.year, row.month)
                  = SumVolumes(raw, group, cols[c]) * row[c].den

\* C9: at well level and at completion level the aggregated production and
\* injection tables hold exactly one row per (entity, year, month) with a
\* mapped reading, no key twice, each rate being the group's summed volume
\* divided by the days of the month.
C9_OneRowPerEntityMonth ==
    /\ WellRan =>
          /\ AggregatesOnce(prod_monthly, production_data, "COMP_S_NAME",
                            "PROD_DT", "well_name", ProdColumns)
          /\ AggregatesOnce(inj_monthly, injection_data, "COMPLETION_LEGAL_NAME",
                            "Date", "well_name", InjColumns)
    /\ CompletionRan =>
          /\ AggregatesOnce(prod_completion_data, production_data, "COMP_S_NAME",
                            "PROD_DT", "completion_name", ProdColumns)
          /\ AggregatesOnce(inj_completion_data, injection_data,
                            "COMPLETION_LEGAL_NAME", "Date", "completion_name",
                            InjColumns)

\* C11: in the well-level result has_dual_function is 1 exactly on the months
\* whose own rates show both production and injection, whatever type the
\* month was resolved to, and 0 on every other month, the months that
\* carried DUAL forward included.
C11_DualFlagOnOwnDualMonths ==
    WellRan =>
        \A row \in Range(monthly_types) :
            row.has_dual_function =
                IF OwnProduction(row) /\ OwnInjection(row) THEN 1 ELSE 0

\* C11 witness: a month with both rates resolved to INJECTION with the flag
\* set, and a later gap month that carried DUAL with the flag clear.
C11_Witness ==
    /\ WellRan
    /\ \E d, g \in Range(monthly_types) :
          /\ d.well_name = g.well_name /\ Earlier(d, g)
          /\ OwnProduction(d) /\ OwnInjection(d)
          /\ d.well_type = "INJECTION" /\ d.has_dual_function = 1
          /\ ~Observed(g) /\ g.has_dual_function = 0
          /\ \E c \in Range(combined) : SameMonth(c, g) /\ c.well_type = "DUAL"

\* the completion comp belongs to a well of the mapping
IsMapped(comp) ==
    \E w \in DOMAIN well_to_completions : comp \in Range(well_to_completions[w])

\* the well-level result computed from the reading tables prod_data, inj_data
WellLevelResult(prod_data, inj_data) ==
    LET prod_m == _process_production_data(prod_data, well_to_completions)
        inj_m == _process_injection_data(inj_data, well_to_completions)
    IN  SelectResultColumns(ResolveDual(
            _combine_and_classify_data(prod_m, inj_m,
                _calculate_historical_well_types(prod_m, inj_m))))

\* the completion-level result computed from prod_data, inj_data
CompletionLevelResult(prod_data, inj_data) ==
    _combine_completion_data(
        _process_completion_production_data(prod_data, well_to_completions,
                                            completion_to_reservoir),
        _process_completion_injection_data(inj_data, well_to_completions,
                                           completion_to_reservoir))

\* C14: a reading whose completion is not in the well-to-completions mapping
\* contributes to no output row: at both levels the result is the one
\* computed from the readings with every such reading removed.
C14_UnmappedReadingsDropped ==
    LET mapped_production ==
            SelectSeq(production_data, LAMBDA r : IsMapped(r.COMP_S_NAME))
        mapped_injection ==
            SelectSeq(injection_data, LAMBDA r : IsMapped(r.COMPLETION_LEGAL_NAME))
    IN  /\ WellRan =>
              monthly_types = WellLevelResult(mapped_production, mapped_injection)
        /\ CompletionRan =>
              completion_status =
                  CompletionLevelResult(mapped_production, mapped_injection)

\* C14 witness: both operations ran on a store holding an unmapped
\* production reading and an unmapped injection reading next to mapped ones.
C14_Witness ==
    /\ WellRan /\ CompletionRan
    /\ \E r \in Range(production_data) : ~IsMapped(r.COMP_S_NAME)
    /\ \E r \in Range(production_data) : IsMapped(r.COMP_S_NAME)
    /\ \E r \in Range(injection_data) : ~IsMapped(r.COMPLETION_LEGAL_NAME)
    /\ monthly_types # <<>> /\ completion_status # <<>>

\* the store holds no reading of a mapped completion
NoMappedReading ==
    /\ \A r \in Range(production_data) : ~IsMapped(r.COMP_S_NAME)
    /\ \A r \in Range(injection_data) : ~IsMapped(r.COMPLETION_LEGAL_NAME)

\* C15: when the store has no production and no injection reading, or only
\* readings of unmapped completions, the well-level result and the
\* completion-level result are empty tables.
C15_NoReadingsEmptyResult ==
    NoMappedReading =>
        /\ WellRan => monthly_types = <<>> /\ combined = <<>>
        /\ CompletionRan => completion_status = <<>>

\* C15 witness: both operations ran on a store whose only readings are of
\* an unmapped completion.
C15_Witness ==
    /\ WellRan /\ CompletionRan /\ NoMappedReading
    /\ production_data # <<>> /\ injection_data # <<>>
    /\ monthly_types = <<>> /\ completion_status = <<>>

\* well w has a reading of one of its completions in the store
HasReading(w) ==
    /\ w \in DOMAIN well_to_completions
    /\ \/ \E r \in Range(production_data) :
              r.COMP_S_NAME \in Range(well_to_completions[w])
       \/ \E r \in Range(injection_data) :
              r.COMPLETION_LEGAL_NAME \in Range(well_to_completions[w])

\* C16: every well of the well-level result has at least one reading of one
\* of its completions: a mapped well without any reading has no row.
C16_WellsWithoutReadingsAbsent ==
    WellRan => \A row \in Range(monthly_types) : HasReading(row.well_name)

\* C16 witness: a result with rows while a well of the mapping has no
\* reading and no row.
C16_Witness ==
    /\ WellRan /\ monthly_types # <<>>
    /\ \E w \in DOMAIN well_to_completions :
          /\ ~HasReading(w)
          /\ \A row \in Range(monthly_types) : row.well_name # w

\* the fields of a well-level result row
WellResultFields ==
    {"well_name", "year", "month", "well_type", "oil_rate", "water_rate",
     "water_inj_rate", "has_dual_function", "remarks"}

\* C17: every row of a non-empty well-level result has the fields well_name,
\* year, month, well_type, oil_rate, water_rate, water_inj_rate,
\* has_dual_function and remarks, whichever path produced the table.
C17_ResultCarriesAllFields ==
    WellRan => \A row \in Range(monthly_types) : DOMAIN row = WellResultFields

\* C18: a run of calculate_monthly_well_types or of
\* calculate_completion_status leaves the data store as it was: the
\* production readings, the injection readings, the well-to-completions map
\* and the completion-to-reservoir map.
C18_RunsLeaveStoreUnchanged ==
    [][pc = "ready" => store' = store]_vars

\* C18 witness: both operations ran on a store with production and
\* injection readings, one of them of an unmapped completion that the runs
\* drop from their copies, and the store still holds it.
C18_Witness ==
    /\ WellRan /\ CompletionRan
    /\ monthly_types # <<>> /\ completion_status # <<>>
    /\ injection_data # <<>>
    /\ \E r \in Range(production_data) : ~IsMapped(r.COMP_S_NAME)
    /\ \A r \in Range(production_data) : "well_name" \notin DOMAIN r

\* the rows of table t for well w
RowsOfWell(t, w) == {r \in Range(t) : r.well_name = w}

\* the history index of a run is rebuilt from the run's own monthly tables
\* (line 53): a well with a history flag set has a month with an observed
\* rate, so the seeding of lines 296-305 finds both flags False whenever
\* it is reached
HistoryIsObserved ==
    WellRan =>
        \A w \in DOMAIN historical_types :
            (\/ historical_types[w].has_production_history
             \/ historical_types[w].has_injection_history) =>
                \E r \in RowsOfWell(combined, w) : Observed(r)

\* a call that reports that the operation was not stored
Failed(ret) ==
    \/ ret.call = "create_operation" /\ ret.value = None
    \/ ret.call = "save_operation_results" /\ ret.value = FALSE

\* the stored result rows of an operation
RowsOfOperation(table, operation_id) ==
    {r \in table : r.operation_id = operation_id}

\* C19: replacing a named operation is atomic: when create_operation
\* returns None or save_operation_results returns False, the operation
\* stored under that name before the call and its result rows are still
\* in the store after it
C19_FailedReplaceKeepsPrevious ==
    [][Failed(returned') =>
         \A o \in operations :
            o.operation_name = returned'.operation_name =>
               /\ o \in operations'
               /\ RowsOfOperation(well_monthly_type', o.operation_id)
                    = RowsOfOperation(well_monthly_type, o.operation_id)]_vars

\* C20: after any sequence of create_operation and delete_operation calls
\* from an empty store the operations table holds at most one row per
\* operation_name, and after a successful create_operation(name) the row
\* of that name is the newly created one
C20_OneRowPerOperationName ==
    /\ \A o1, o2 \in operations :
          o1.operation_name = o2.operation_name => o1 = o2
    /\ (returned.call = "create_operation" /\ returned.value # None) =>
          {o \in operations : o.operation_name = returned.operation_name}
            = {[operation_id |-> returned.value,
                operation_name |-> returned.operation_name]}

\* the UNIQUE key of a stored well-level row
MonthlyKey(r) == <<r.operation_id, r.well_name, r.year, r.month>>

\* the last row of df with the well and month of df[i]
LastSaved(df, i) ==
    LET same == {k \in 1..Len(df) : /\ df[k].well_name = df[i].well_name
                                    /\ df[k].year = df[i].year
                                    /\ df[k].month = df[i].month}
    IN  df[CHOOSE k \in same : \A m \in same : m <= k]

\* C21: save_well_monthly_type is a replace-by-key upsert: the table holds
\* at most one row per (operation_id, well_name, year, month), after a
\* save every key of the saved table carries the values last saved for
\* it, and saving a table a second time under the same operation id
\* leaves the rows that saving it once leaves
C21_SaveIsUpsertByKey ==
    /\ \A r1, r2 \in well_monthly_type :
          MonthlyKey(r1) = MonthlyKey(r2) => r1 = r2
    /\ (returned.call = "save_well_monthly_type" /\ returned.value) =>
          \A i \in 1..Len(returned.df) :
             ([operation_id |-> returned.operation_id]
                 @@ LastSaved(returned.df, i)) \in well_monthly_type
    /\ \A operation_id \in 1..MaxOperations, df \in ResultTables :
          LET once == SaveWellMonthlyType(Database, operation_id, df, {})
              twice == SaveWellMonthlyType(once.db, operation_id, df, {})
          IN  twice.db.well_monthly_type = once.db.well_monthly_type

\* a save has replaced the stored row of a key by the last of two rows
\* the saved table has for that key
C21_Witness ==
    /\ returned.call = "save_well_monthly_type"
    /\ returned.value
    /\ Len(returned.df) = 2
    /\ returned.df[1].well_name = returned.df[2].well_name
    /\ returned.df[1] # returned.df[2]
    /\ ([operation_id |-> returned.operation_id] @@ returned.df[2])
          \in well_monthly_type
    /\ ([operation_id |-> returned.operation_id] @@ returned.df[1])
          \notin well_monthly_type

\* C22: no exception propagates out of the calculator's public
\* operations on well-formed input: calculate_monthly_well_types and
\* calculate_completion_status both return a table, also on a calculator
\* whose progress callback is the default installed by the constructor
C22_NoExceptionPropagates == exception = "none"

\* C23: every run of the background worker that is not cancelled
\* eventually emits operation_completed, and no run emits it more than
\* once
C23_RunEmitsCompletedOnce ==
    /\ [](Len(emitted) <= 1)
    /\ (worker.state = "started")
          ~> (Len(emitted) = 1 \/ progress_dialog = "rejected")

\* C25: a gap month (no own rate) to which the walk carried DUAL is output
\* at well level as PRODUCTION with has_dual_function = 0, whatever the
\* DUAL month it carries from was resolved to
C25_DualGapIsProduction ==
    WellRan =>
        \A i \in 1..Len(combined) :
            (combined[i].well_type = "DUAL" /\ ~Observed(combined[i])) =>
                /\ monthly_types[i].well_type = "PRODUCTION"
                /\ monthly_types[i].has_dual_function = 0

\* a gap month output as PRODUCTION whose carried DUAL comes from the
\* nearest earlier observed month, itself resolved to INJECTION
C25_Witness ==
    /\ WellRan
    /\ \E i, j \in 1..Len(combined) :
          /\ combined[i].well_name = combined[j].well_name
          /\ Earlier(combined[j], combined[i])
          /\ combined[j].well_type = "DUAL" /\ Observed(combined[j])
          /\ monthly_types[j].well_type = "INJECTION"
          /\ \A k \in 1..Len(combined) :
                (/\ combined[k].well_name = combined[i].well_name
                 /\ Earlier(combined[j], combined[k])
                 /\ Earlier(combined[k], combined[i]))
                   => ~Observed(combined[k])
          /\ combined[i].well_type = "DUAL" /\ ~Observed(combined[i])
          /\ monthly_types[i].well_type = "PRODUCTION"

\* the (well_name, year, month) keys of a well-level table
KeysOf(t) == {<<r.well_name, r.year, r.month>> : r \in Range(t)}

\* the rate a monthly table has in column col for the key of row r, 0 when
\* it has no row for the key
AggregatedRate(t, r, col) ==
    LET rows == {q \in Range(t) : SameMonth(q, r)}
    IN  IF rows = {} THEN Zero ELSE (CHOOSE q \in rows : TRUE)[col]

\* C26: the well-level output has exactly the (well_name, year, month) keys
\* of the two aggregated tables together, one row per key, and each row
\* carries the aggregated rates of its key, 0 where a table has no row for
\* it: classification, carry-forward and DUAL resolution add no row and
\* change no rate
C26_OutputKeysAndRatesAreAggregated ==
    WellRan =>
        /\ KeysOf(monthly_types) = KeysOf(prod_monthly) \cup KeysOf(inj_monthly)
        /\ Cardinality(KeysOf(monthly_types)) = Len(monthly_types)
        /\ \A r \in Range(monthly_types) :
              /\ r.oil_rate = AggregatedRate(prod_monthly, r, "oil_rate")
              /\ r.water_rate = AggregatedRate(prod_monthly, r, "water_rate")
              /\ r.water_inj_rate =
                    AggregatedRate(inj_monthly, r, "water_inj_rate")

\* a run whose output has a month only the production table has and a
\* month only the injection table has, with a month without own rates
\* that was given a carried type
C26_Witness ==
    /\ WellRan
    /\ KeysOf(prod_monthly) \ KeysOf(inj_monthly) # {}
    /\ KeysOf(inj_monthly) \ KeysOf(prod_monthly) # {}
    /\ \E r \in Range(monthly_types) :
          ~Observed(r) /\ r.well_type # "UNKNOWN"

\* C27: when exactly one of the two aggregated tables is empty, the
\* shortcut path labels every row as the merge-and-walk path labels the
\* same rows with the missing side's rates taken as 0, the rows without
\* own rates included
C27_ShortcutLabelsAsWalk ==
    (WellRan /\ (prod_monthly = <<>>) # (inj_monthly = <<>>)) =>
        \A i \in 1..Len(combined) :
            combined[i].well_type =
                ClassifyMerged(combined, historical_types)[i]

\* table without the rows of an operation id
WithoutOperation(table, operation_id) ==
    {r \in table : r.operation_id # operation_id}

\* C28: delete_operation(id) removes the operations row of the id and
\* every row of the id from well_overall_type, well_monthly_type and
\* well_reservoir_type and leaves the rows of every other id in the four
\* tables as they are; when it returns False nothing has been removed
C28_DeleteRemovesOneOperation ==
    [][returned'.call = "delete_operation" =>
         IF returned'.value
         THEN /\ operations' =
                    WithoutOperation(operations, returned'.operation_id)
              /\ well_overall_type' =
                    WithoutOperation(well_overall_type,
                                     returned'.operation_id)
              /\ well_monthly_type' =
                    WithoutOperation(well_monthly_type,
                                     returned'.operation_id)
              /\ well_reservoir_type' =
                    WithoutOperation(well_reservoir_type,
                                     returned'.operation_id)
         ELSE UNCHANGED <<operations, well_overall_type, well_monthly_type,
                          well_reservoir_type>>]_vars

\* an operation was deleted and no table has a row of its id, while
\* another operation has its row in each of the four tables
C28_Witness ==
    /\ returned.call = "delete_operation"
    /\ returned.value
    /\ \A r \in operations \cup well_overall_type \cup well_monthly_type
                 \cup well_reservoir_type :
          r.operation_id # returned.operation_id
    /\ \E id \in 1..MaxOperations :
          /\ id # returned.operation_id
          /\ \E o \in operations : o.operation_id = id
          /\ OverallRow(id) \in well_overall_type
          /\ MonthlyRow(id) \in well_monthly_type
          /\ ReservoirRow(id) \in well_reservoir_type

\* C29: on a table without the column, the has_dual_function that
\* calculate_overall_well_types computes is, row by row, the flag
\* calculate_monthly_well_types gives the same rates (1 exactly when
\* (oil_rate > 0 or water_rate > 0) and water_inj_rate > 0), and
\* secondary_type is the other one of PRODUCTION / INJECTION than
\* well_type on the rows with the flag and NONE on all others
C29_OverallFlagIsMonthlyFlag ==
    pc = "overall_done" =>
        \A r \in Range(overall_types) :
            /\ r.has_dual_function = HasDualFunction(r)
            /\ r.secondary_type =
                  IF r.has_dual_function # 1 THEN "NONE"
                  ELSE IF r.well_type = "PRODUCTION" THEN "INJECTION"
                  ELSE "PRODUCTION"

\* the observed rows of table t for the same completion as r, of earlier months
ObservedBeforeInCompletion(t, r) ==
    {q \in Range(t) : /\ q.well_name = r.well_name
                      /\ q.completion_name = r.completion_name
                      /\ Earlier(q, r) /\ Observed(q)}

\* the output types a month carrying the mode of row q may have
CarriedTypes(q) ==
    IF OwnMode(q) = "DUAL" THEN {"PRODUCTION", "INJECTION"} ELSE {OwnMode(q)}

\* C10: at completion level a month of a completion without production and
\* injection has the mode of the nearest preceding observed month of that
\* same completion.
C10_CompletionGapCarriesOwnMode ==
    CompletionRan =>
        \A r \in Range(completion_status) :
            LET before == ObservedBeforeInCompletion(completion_status, r)
                nearest == {q \in before : \A x \in before : ~Earlier(q, x)}
            IN  (~Observed(r) /\ before # {}) =>
                    \E q \in nearest : r.well_type \in CarriedTypes(q)

=============================================================================
